---- MODULE Spec2Model ----
(***************************************************************************)
(* A model of the paper retrieval engine: PaperSearchTool.invoke           *)
(* (tools/paper_search_tool.py), its two source clients, the venue alias   *)
(* resolver, and the search flow of app.py that calls it.                  *)
(*                                                                         *)
(* Text is modelled as a sequence of one-character strings, so that        *)
(* lower(), strip(), concatenation and substring containment are computed  *)
(* rather than assumed.  A Python value that may be None is the tuple <<>> *)
(* (None) or <<x>> (the value x).  A JSON field of a provider item is      *)
(* <<"missing">>, <<"null">> or <<"val", x>>.                              *)
(***************************************************************************)
EXTENDS Integers, Sequences, FiniteSets, TLC

(* ------------------------------ bounds -------------------------------- *)

\* The longest list of items one provider response carries.
MaxResp == 2
\* The most items the provider returns over all the calls of one invoke.
MaxTotal == 3
\* The largest max_results a direct caller of invoke passes.
MaxMaxResults == 3

(* ------------------------------- text --------------------------------- *)

UpperChars ==
  <<"A","B","C","D","E","F","G","H","I","J","K","L","M",
    "N","O","P","Q","R","S","T","U","V","W","X","Y","Z">>

LowerChars ==
  <<"a","b","c","d","e","f","g","h","i","j","k","l","m",
    "n","o","p","q","r","s","t","u","v","w","x","y","z">>

\* The lowercase letter of each uppercase letter.
LowerOf ==
  [c \in {UpperChars[i] : i \in 1..Len(UpperChars)} |->
     LowerChars[CHOOSE i \in 1..Len(UpperChars) : UpperChars[i] = c]]

\* str.lower() on one character.
LowerChar(c) == IF c \in DOMAIN LowerOf THEN LowerOf[c] ELSE c

\* str.lower()
Lower(s) == [i \in 1..Len(s) |-> LowerChar(s[i])]

\* The characters str.strip() removes.
IsSpace(c) == c \in {" ", "\t", "\n"}

\* str.strip(): the text between the first and the last non-space character.
Strip(s) ==
  LET keep == {i \in 1..Len(s) : ~IsSpace(s[i])}
  IN  IF keep = {} THEN <<>>
      ELSE LET lo == CHOOSE i \in keep : \A j \in keep : i <= j
               hi == CHOOSE i \in keep : \A j \in keep : j <= i
           IN  SubSeq(s, lo, hi)

\* `needle in hay` on str.
Contains(hay, needle) ==
  \E i \in 0..(Len(hay) - Len(needle)) : SubSeq(hay, i + 1, i + Len(needle)) = needle

DigitChars == <<"0","1","2","3","4","5","6","7","8","9">>

\* str(n) for an int n >= 0.
RECURSIVE NatToStr(_)
NatToStr(n) ==
  IF n < 10 THEN <<DigitChars[n + 1]>>
  ELSE NatToStr(n \div 10) \o <<DigitChars[(n % 10) + 1]>>

\* str(n) for an int.
IntToStr(n) == IF n < 0 THEN <<"-">> \o NatToStr(0 - n) ELSE NatToStr(n)

(* --------------------------- Python values ---------------------------- *)

PyNone == <<>>
Py(x) == <<x>>
IsNone(o) == Len(o) = 0

\* Truthiness of an optional str: None and "" are falsy.
TruthyStr(o) == Len(o) = 1 /\ Len(o[1]) > 0
\* Truthiness of an optional int: None and 0 are falsy.
TruthyInt(o) == Len(o) = 1 /\ o[1] # 0

\* `o or ""` on an optional str.
StrOrEmpty(o) == IF TruthyStr(o) THEN o[1] ELSE <<>>

\* dict.get(k) on a JSON object field: a missing key and a null are None.
Get(f) == IF f[1] = "val" THEN Py(f[2]) ELSE PyNone
\* dict.get(k, d): the default only replaces a missing key, a null stays None.
GetDefault(f, d) == IF f[1] = "missing" THEN Py(d) ELSE Get(f)

Missing == <<"missing">>
Null == <<"null">>
Val(x) == <<"val", x>>

\* f"{x}" of an optional int: "None" or the decimal digits.
FormatOptInt(o) == IF IsNone(o) THEN <<"N","o","n","e">> ELSE IntToStr(o[1])

\* xs[:n] for n >= 0.
Take(xs, n) == SubSeq(xs, 1, IF n < Len(xs) THEN n ELSE Len(xs))

\* [x for x in xs if P(x)]
RECURSIVE SelectSeqOf(_, _)
SelectSeqOf(xs, keep) ==
  IF xs = <<>> THEN <<>>
  ELSE (IF Head(xs) \in keep THEN <<Head(xs)>> ELSE <<>>) \o SelectSeqOf(Tail(xs), keep)

\* sep.join(parts)
RECURSIVE Join(_, _)
Join(sep, parts) ==
  IF parts = <<>> THEN <<>>
  ELSE IF Len(parts) = 1 THEN parts[1]
  ELSE parts[1] \o sep \o Join(sep, Tail(parts))

(* ------------------------- venue alias resolver ----------------------- *)

\* The alias dictionary of _venue_aliases: key |-> alias list, in source order.
VenueAliasTable ==
  <<
    << <<"n","e","u","r","i","p","s">>,
       << <<"N","e","u","r","I","P","S">>,
          <<"N","I","P","S">>,
          <<"N","e","u","r","a","l"," ","I","n","f","o","r","m","a","t","i","o","n"," ","P","r","o","c","e","s","s","i","n","g"," ","S","y","s","t","e","m","s">>,
          <<"A","d","v","a","n","c","e","s"," ","i","n"," ","N","e","u","r","a","l"," ","I","n","f","o","r","m","a","t","i","o","n"," ","P","r","o","c","e","s","s","i","n","g"," ","S","y","s","t","e","m","s">> >> >>,
    << <<"i","c","m","l">>,
       << <<"I","C","M","L">>,
          <<"I","n","t","e","r","n","a","t","i","o","n","a","l"," ","C","o","n","f","e","r","e","n","c","e"," ","o","n"," ","M","a","c","h","i","n","e"," ","L","e","a","r","n","i","n","g">> >> >>,
    << <<"i","c","l","r">>,
       << <<"I","C","L","R">>,
          <<"I","n","t","e","r","n","a","t","i","o","n","a","l"," ","C","o","n","f","e","r","e","n","c","e"," ","o","n"," ","L","e","a","r","n","i","n","g"," ","R","e","p","r","e","s","e","n","t","a","t","i","o","n","s">> >> >>,
    << <<"c","v","p","r">>,
       << <<"C","V","P","R">>,
          <<"C","o","m","p","u","t","e","r"," ","V","i","s","i","o","n"," ","a","n","d"," ","P","a","t","t","e","r","n"," ","R","e","c","o","g","n","i","t","i","o","n">> >> >>,
    << <<"i","c","c","v">>,
       << <<"I","C","C","V">>,
          <<"I","n","t","e","r","n","a","t","i","o","n","a","l"," ","C","o","n","f","e","r","e","n","c","e"," ","o","n"," ","C","o","m","p","u","t","e","r"," ","V","i","s","i","o","n">> >> >>,
    << <<"e","c","c","v">>,
       << <<"E","C","C","V">>,
          <<"E","u","r","o","p","e","a","n"," ","C","o","n","f","e","r","e","n","c","e"," ","o","n"," ","C","o","m","p","u","t","e","r"," ","V","i","s","i","o","n">> >> >>,
    << <<"a","a","a","i">>,
       << <<"A","A","A","I">>,
          <<"A","s","s","o","c","i","a","t","i","o","n"," ","f","o","r"," ","t","h","e"," ","A","d","v","a","n","c","e","m","e","n","t"," ","o","f"," ","A","r","t","i","f","i","c","i","a","l"," ","I","n","t","e","l","l","i","g","e","n","c","e">> >> >>,
    << <<"a","c","l">>,
       << <<"A","C","L">>,
          <<"A","s","s","o","c","i","a","t","i","o","n"," ","f","o","r"," ","C","o","m","p","u","t","a","t","i","o","n","a","l"," ","L","i","n","g","u","i","s","t","i","c","s">> >> >>,
    << <<"e","m","n","l","p">>,
       << <<"E","M","N","L","P">>,
          <<"E","m","p","i","r","i","c","a","l"," ","M","e","t","h","o","d","s"," ","i","n"," ","N","a","t","u","r","a","l"," ","L","a","n","g","u","a","g","e"," ","P","r","o","c","e","s","s","i","n","g">> >> >>,
    << <<"k","d","d">>,
       << <<"K","D","D">>,
          <<"S","I","G","K","D","D">>,
          <<"K","n","o","w","l","e","d","g","e"," ","D","i","s","c","o","v","e","r","y"," ","a","n","d"," ","D","a","t","a"," ","M","i","n","i","n","g">> >> >>,
    << <<"s","i","g","i","r">>,
       << <<"S","I","G","I","R">>,
          <<"I","n","f","o","r","m","a","t","i","o","n"," ","R","e","t","r","i","e","v","a","l">> >> >>,
    << <<"u","a","i">>,
       << <<"U","A","I">>,
          <<"U","n","c","e","r","t","a","i","n","t","y"," ","i","n"," ","A","r","t","i","f","i","c","i","a","l"," ","I","n","t","e","l","l","i","g","e","n","c","e">> >> >>,
    << <<"j","m","l","r">>,
       << <<"J","M","L","R">>,
          <<"J","o","u","r","n","a","l"," ","o","f"," ","M","a","c","h","i","n","e"," ","L","e","a","r","n","i","n","g"," ","R","e","s","e","a","r","c","h">> >> >>,
    << <<"t","m","l","r">>,
       << <<"T","M","L","R">>,
          <<"T","r","a","n","s","a","c","t","i","o","n","s"," ","o","n"," ","M","a","c","h","i","n","e"," ","L","e","a","r","n","i","n","g"," ","R","e","s","e","a","r","c","h">> >> >>,
    << <<"t","p","a","m","i">>,
       << <<"T","P","A","M","I">>,
          <<"T","r","a","n","s","a","c","t","i","o","n","s"," ","o","n"," ","P","a","t","t","e","r","n"," ","A","n","a","l","y","s","i","s"," ","a","n","d"," ","M","a","c","h","i","n","e"," ","I","n","t","e","l","l","i","g","e","n","c","e">> >> >>,
    << <<"t","a","c","l">>,
       << <<"T","A","C","L">>,
          <<"T","r","a","n","s","a","c","t","i","o","n","s"," ","o","f"," ","t","h","e"," ","A","s","s","o","c","i","a","t","i","o","n"," ","f","o","r"," ","C","o","m","p","u","t","a","t","i","o","n","a","l"," ","L","i","n","g","u","i","s","t","i","c","s">> >> >>,
    << <<"n","a","t","u","r","e">>,
       << <<"N","a","t","u","r","e">> >> >>,
    << <<"s","c","i","e","n","c","e">>,
       << <<"S","c","i","e","n","c","e">> >> >>,
    << <<"c","e","l","l">>,
       << <<"C","e","l","l">> >> >>,
    << <<"p","n","a","s">>,
       << <<"P","N","A","S">>,
          <<"P","r","o","c","e","e","d","i","n","g","s"," ","o","f"," ","t","h","e"," ","N","a","t","i","o","n","a","l"," ","A","c","a","d","e","m","y"," ","o","f"," ","S","c","i","e","n","c","e","s">> >> >>
  >>

\* The alias dictionary of _alias_candidates (lowercase, matching only).
AliasCandidateTable ==
  <<
    << <<"n","e","u","r","i","p","s">>,
       << <<"n","e","u","r","i","p","s">>,
          <<"n","i","p","s">>,
          <<"n","e","u","r","a","l"," ","i","n","f","o","r","m","a","t","i","o","n"," ","p","r","o","c","e","s","s","i","n","g"," ","s","y","s","t","e","m","s">>,
          <<"a","d","v","a","n","c","e","s"," ","i","n"," ","n","e","u","r","a","l"," ","i","n","f","o","r","m","a","t","i","o","n"," ","p","r","o","c","e","s","s","i","n","g"," ","s","y","s","t","e","m","s">> >> >>,
    << <<"i","c","m","l">>,
       << <<"i","c","m","l">>,
          <<"i","n","t","e","r","n","a","t","i","o","n","a","l"," ","c","o","n","f","e","r","e","n","c","e"," ","o","n"," ","m","a","c","h","i","n","e"," ","l","e","a","r","n","i","n","g">> >> >>,
    << <<"i","c","l","r">>,
       << <<"i","c","l","r">>,
          <<"i","n","t","e","r","n","a","t","i","o","n","a","l"," ","c","o","n","f","e","r","e","n","c","e"," ","o","n"," ","l","e","a","r","n","i","n","g"," ","r","e","p","r","e","s","e","n","t","a","t","i","o","n","s">>,
          <<"l","e","a","r","n","i","n","g"," ","r","e","p","r","e","s","e","n","t","a","t","i","o","n","s">> >> >>,
    << <<"a","a","a","i">>,
       << <<"a","a","a","i">>,
          <<"a","s","s","o","c","i","a","t","i","o","n"," ","f","o","r"," ","t","h","e"," ","a","d","v","a","n","c","e","m","e","n","t"," ","o","f"," ","a","r","t","i","f","i","c","i","a","l"," ","i","n","t","e","l","l","i","g","e","n","c","e">> >> >>,
    << <<"k","d","d">>,
       << <<"k","d","d">>,
          <<"s","i","g","k","d","d">>,
          <<"k","n","o","w","l","e","d","g","e"," ","d","i","s","c","o","v","e","r","y"," ","a","n","d"," ","d","a","t","a"," ","m","i","n","i","n","g">> >> >>,
    << <<"u","a","i">>,
       << <<"u","a","i">>,
          <<"u","n","c","e","r","t","a","i","n","t","y"," ","i","n"," ","a","r","t","i","f","i","c","i","a","l"," ","i","n","t","e","l","l","i","g","e","n","c","e">> >> >>,
    << <<"c","v","p","r">>,
       << <<"c","v","p","r">>,
          <<"c","o","m","p","u","t","e","r"," ","v","i","s","i","o","n"," ","a","n","d"," ","p","a","t","t","e","r","n"," ","r","e","c","o","g","n","i","t","i","o","n">> >> >>,
    << <<"i","c","c","v">>,
       << <<"i","c","c","v">>,
          <<"i","n","t","e","r","n","a","t","i","o","n","a","l"," ","c","o","n","f","e","r","e","n","c","e"," ","o","n"," ","c","o","m","p","u","t","e","r"," ","v","i","s","i","o","n">> >> >>,
    << <<"e","c","c","v">>,
       << <<"e","c","c","v">>,
          <<"e","u","r","o","p","e","a","n"," ","c","o","n","f","e","r","e","n","c","e"," ","o","n"," ","c","o","m","p","u","t","e","r"," ","v","i","s","i","o","n">> >> >>,
    << <<"w","a","c","v">>,
       << <<"w","a","c","v">> >> >>,
    << <<"a","c","l">>,
       << <<"a","c","l">>,
          <<"a","s","s","o","c","i","a","t","i","o","n"," ","f","o","r"," ","c","o","m","p","u","t","a","t","i","o","n","a","l"," ","l","i","n","g","u","i","s","t","i","c","s">> >> >>,
    << <<"e","m","n","l","p">>,
       << <<"e","m","n","l","p">>,
          <<"e","m","p","i","r","i","c","a","l"," ","m","e","t","h","o","d","s"," ","i","n"," ","n","a","t","u","r","a","l"," ","l","a","n","g","u","a","g","e"," ","p","r","o","c","e","s","s","i","n","g">> >> >>,
    << <<"n","a","a","c","l">>,
       << <<"n","a","a","c","l">> >> >>,
    << <<"c","o","l","i","n","g">>,
       << <<"c","o","l","i","n","g">>,
          <<"c","o","m","p","u","t","a","t","i","o","n","a","l"," ","l","i","n","g","u","i","s","t","i","c","s">> >> >>,
    << <<"s","i","g","i","r">>,
       << <<"s","i","g","i","r">>,
          <<"i","n","f","o","r","m","a","t","i","o","n"," ","r","e","t","r","i","e","v","a","l">> >> >>,
    << <<"w","w","w">>,
       << <<"w","w","w">>,
          <<"t","h","e"," ","w","e","b"," ","c","o","n","f","e","r","e","n","c","e">>,
          <<"i","n","t","e","r","n","a","t","i","o","n","a","l"," ","w","o","r","l","d"," ","w","i","d","e"," ","w","e","b"," ","c","o","n","f","e","r","e","n","c","e">> >> >>,
    << <<"j","m","l","r">>,
       << <<"j","m","l","r">>,
          <<"j","o","u","r","n","a","l"," ","o","f"," ","m","a","c","h","i","n","e"," ","l","e","a","r","n","i","n","g"," ","r","e","s","e","a","r","c","h">> >> >>,
    << <<"t","m","l","r">>,
       << <<"t","m","l","r">>,
          <<"t","r","a","n","s","a","c","t","i","o","n","s"," ","o","n"," ","m","a","c","h","i","n","e"," ","l","e","a","r","n","i","n","g"," ","r","e","s","e","a","r","c","h">> >> >>,
    << <<"t","p","a","m","i">>,
       << <<"t","p","a","m","i">>,
          <<"t","r","a","n","s","a","c","t","i","o","n","s"," ","o","n"," ","p","a","t","t","e","r","n"," ","a","n","a","l","y","s","i","s"," ","a","n","d"," ","m","a","c","h","i","n","e"," ","i","n","t","e","l","l","i","g","e","n","c","e">> >> >>,
    << <<"t","a","c","l">>,
       << <<"t","a","c","l">>,
          <<"t","r","a","n","s","a","c","t","i","o","n","s"," ","o","f"," ","t","h","e"," ","a","s","s","o","c","i","a","t","i","o","n"," ","f","o","r"," ","c","o","m","p","u","t","a","t","i","o","n","a","l"," ","l","i","n","g","u","i","s","t","i","c","s">> >> >>,
    << <<"n","a","t","u","r","e">>,
       << <<"n","a","t","u","r","e">> >> >>,
    << <<"s","c","i","e","n","c","e">>,
       << <<"s","c","i","e","n","c","e">> >> >>,
    << <<"c","e","l","l">>,
       << <<"c","e","l","l">> >> >>,
    << <<"p","n","a","s">>,
       << <<"p","n","a","s">>,
          <<"p","r","o","c","e","e","d","i","n","g","s"," ","o","f"," ","t","h","e"," ","n","a","t","i","o","n","a","l"," ","a","c","a","d","e","m","y"," ","o","f"," ","s","c","i","e","n","c","e","s">> >> >>,
    << <<"n","e","u","r","i","p","s"," ","w","o","r","k","s","h","o","p">>,
       << <<"n","e","u","r","i","p","s"," ","w","o","r","k","s","h","o","p">> >> >>
  >>

\* The lookup loop shared by both alias paths: the values of the first key equal
\* to t, or <<>> inside PyNone when no key matches.
RECURSIVE LookupAlias(_, _)
LookupAlias(table, t) ==
  IF table = <<>> THEN PyNone
  ELSE IF t = Head(table)[1] THEN Py(Head(table)[2])
  ELSE LookupAlias(Tail(table), t)

\* PaperSearchTool._venue_aliases(v), v an optional str.
_venue_aliases(v) ==
  LET t   == Lower(Strip(StrOrEmpty(v)))
      hit == LookupAlias(VenueAliasTable, t)
  IN  IF ~IsNone(hit) THEN hit[1]
      ELSE IF TruthyStr(v) THEN <<v[1]>> ELSE <<>>

\* app._normalize_venue(v)
_normalize_venue(v) == Lower(Strip(StrOrEmpty(v)))

\* A variant of _alias_candidates that knows no alias: the normalized text alone.
_alias_candidates_literal(v) ==
  LET t == _normalize_venue(v)
  IN  IF Len(t) > 0 THEN <<t>> ELSE <<>>

\* app._alias_candidates(v)
_alias_candidates(v) ==
  LET t   == _normalize_venue(v)
      hit == LookupAlias(AliasCandidateTable, t)
  IN  IF ~IsNone(hit) THEN hit[1]
      ELSE IF Len(t) > 0 THEN <<t>> ELSE <<>>

\* The text a venue filter matches against:
\* (r.get("venue_all") or r.get("venue") or "").lower()
VenueText(r) ==
  Lower(IF TruthyStr(r.venue_all) THEN r.venue_all[1] ELSE StrOrEmpty(r.venue))

\* app._matches_any_venue(paper, candidates)
_matches_any_venue(paper, candidates) ==
  \E i \in 1..Len(candidates) :
     Len(candidates[i]) > 0 /\ Contains(VenueText(paper), candidates[i])

(* --------------------------- deduplication ---------------------------- *)

\* A variant of _dedupe_key that compares the DOI with its case.
_dedupe_key_cased(r) ==
  LET d == StrOrEmpty(r.doi)
  IN  IF Len(d) > 0 THEN <<"d","o","i",":">> \o d
      ELSE <<"t","i","t","l","e",":">> \o Lower(StrOrEmpty(Py(r.title)))
           \o <<"|","y","e","a","r",":">> \o FormatOptInt(r.year)

\* PaperSearchTool._dedupe_key(r)
_dedupe_key(r) ==
  LET d == Lower(StrOrEmpty(r.doi))
  IN  IF Len(d) > 0 THEN <<"d","o","i",":">> \o d
      ELSE <<"t","i","t","l","e",":">> \o Lower(StrOrEmpty(Py(r.title)))
           \o <<"|","y","e","a","r",":">> \o FormatOptInt(r.year)

(* --------------------------- source clients --------------------------- *)

\* The sentinel texts of the unified record.  The source spells them in Korean,
\* "(제목 없음)", "(저자 정보 없음)", "(초록 없음)"; here they are spelled in ASCII.
NoTitle == <<"(","n","o"," ","t","i","t","l","e",")">>
NoAuthors == <<"(","n","o"," ","a","u","t","h","o","r","s",")">>
NoAbstract == <<"(","n","o"," ","a","b","s","t","r","a","c","t",")">>

DoiPrefix == <<"h","t","t","p","s",":","/","/","d","o","i",".","o","r","g","/">>

\* f"https://doi.org/{doi}" if doi else None
DoiUrl(doi) == IF TruthyStr(doi) THEN Py(DoiPrefix \o doi[1]) ELSE PyNone

\* `(item.get(k) or {}).get(sub)`: the field `sub` of a nested object that may be
\* missing or null.
GetNested(f, sub) == IF f[1] = "val" THEN Get(f[2][sub]) ELSE PyNone

\* The author names of a Semantic Scholar item, a.get("name", ""); <<"raise">>
\* stands for the TypeError of iterating null or joining a null name.
S2AuthorNames(f) ==
  IF f[1] = "missing" THEN Py(<<>>)
  ELSE IF f[1] = "null" THEN PyNone
  ELSE IF \E i \in 1..Len(f[2]) : f[2][i].name[1] = "null" THEN PyNone
  ELSE Py([i \in 1..Len(f[2]) |->
              IF f[2][i].name[1] = "missing" THEN <<>> ELSE f[2][i].name[2]])

\* One pass of the loop body of _search_semantic_scholar over one item:
\* "skip" (a continue), "raise" (an uncaught TypeError) or "rec" with the record.
S2Item(item, year_from, year_to, min_citations) ==
  LET yr    == Get(item.year)
      cit   == GetDefault(item.citationCount, 0)
      names == S2AuthorNames(item.authors)
      doi   == GetNested(item.externalIds, "DOI")
      venue_simple == Get(item.venue)
      venue_full   == GetNested(item.publicationVenue, "name")
      parts == (IF TruthyStr(venue_simple) THEN <<venue_simple[1]>> ELSE <<>>)
               \o (IF TruthyStr(venue_full) THEN <<venue_full[1]>> ELSE <<>>)
      title == Get(item.title)
      abstract == Get(item.abstract)
  IN  IF TruthyInt(year_from) /\ TruthyInt(yr) /\ yr[1] < year_from[1]
        THEN [kind |-> "skip"]
      ELSE IF TruthyInt(year_to) /\ TruthyInt(yr) /\ yr[1] > year_to[1]
        THEN [kind |-> "skip"]
      ELSE IF ~IsNone(min_citations) /\ IsNone(cit)
        THEN [kind |-> "raise"]
      ELSE IF ~IsNone(min_citations) /\ cit[1] < min_citations[1]
        THEN [kind |-> "skip"]
      ELSE IF IsNone(names)
        THEN [kind |-> "raise"]
      ELSE [kind |-> "rec",
            rec  |-> [title     |-> IF TruthyStr(title) THEN title[1] ELSE NoTitle,
                      authors   |-> LET a == Join(<<",", " ">>, names[1])
                                    IN  IF Len(a) > 0 THEN a ELSE NoAuthors,
                      year      |-> yr,
                      citations |-> Get(item.citationCount),
                      venue     |-> venue_simple,
                      venue_all |-> Py(Join(<<" ", "|", " ">>, parts)),
                      doi       |-> DoiUrl(doi),
                      url       |-> Get(item.url),
                      pdf       |-> GetNested(item.openAccessPdf, "url"),
                      abstract  |-> IF TruthyStr(abstract) THEN abstract[1] ELSE NoAbstract,
                      source    |-> "Semantic Scholar"]]

\* The loop of _search_semantic_scholar over data["data"]: the records appended
\* so far, and whether an item raised.
RECURSIVE S2Loop(_, _, _, _)
S2Loop(items, year_from, year_to, min_citations) ==
  IF items = <<>> THEN [raised |-> FALSE, out |-> <<>>]
  ELSE LET one == S2Item(Head(items), year_from, year_to, min_citations)
       IN  IF one.kind = "raise" THEN [raised |-> TRUE, out |-> <<>>]
           ELSE LET rest == S2Loop(Tail(items), year_from, year_to, min_citations)
                IN  IF rest.raised THEN rest
                    ELSE [raised |-> FALSE,
                          out |-> (IF one.kind = "rec" THEN <<one.rec>> ELSE <<>>) \o rest.out]

\* The request parameters _search_semantic_scholar sends.
S2Params(query, limit) == [query |-> query, limit |-> IF limit > 1 THEN limit ELSE 1]

\* A variant of _search_semantic_scholar whose request is not guarded: a failed
\* request raises.
_search_semantic_scholar_unguarded(resp, year_from, year_to, min_citations) ==
  IF ~resp.ok THEN [raised |-> TRUE, out |-> <<>>]
  ELSE S2Loop(resp.data, year_from, year_to, min_citations)

\* A variant of _search_semantic_scholar that applies none of its filters.
_search_semantic_scholar_unfiltered(resp, year_from, year_to, min_citations) ==
  IF ~resp.ok THEN [raised |-> FALSE, out |-> <<>>]
  ELSE S2Loop(resp.data, PyNone, PyNone, PyNone)

\* PaperSearchTool._search_semantic_scholar, given the provider's answer resp:
\* [ok |-> FALSE] (the request raised: network, timeout, HTTP status) or
\* [ok |-> TRUE, data |-> items].
_search_semantic_scholar(resp, year_from, year_to, min_citations) ==
  IF ~resp.ok THEN [raised |-> FALSE, out |-> <<>>]
  ELSE S2Loop(resp.data, year_from, year_to, min_citations)

\* The author names of a Crossref item:
\* f"{a.get('given','')} {a.get('family','')}".strip(); a null formats as "None".
CrName(f) ==
  IF f[1] = "missing" THEN <<>>
  ELSE IF f[1] = "null" THEN <<"N","o","n","e">> ELSE f[2]

CrAuthorNames(f) ==
  IF f[1] = "missing" THEN Py(<<>>)
  ELSE IF f[1] = "null" THEN PyNone
  ELSE Py([i \in 1..Len(f[2]) |->
              Strip(CrName(f[2][i].given) \o <<" ">> \o CrName(f[2][i].family))])

\* (it.get(k) or [d])[0] on a JSON list of texts.
FirstOr(f, d) == IF f[1] = "val" /\ Len(f[2]) > 0 THEN f[2][1] ELSE d

\* One pass of the loop body of _search_crossref over one item.  issued is
\* missing, null, or an object whose "date-parts" is a field holding a list of
\* lists of optional years.
CrItem(it) ==
  LET names == CrAuthorNames(it.author)
      doi   == Get(it.DOI)
      doi_url == DoiUrl(doi)
      ct    == FirstOr(it.container_title, <<>>)
      venue_title == IF Len(ct) > 0 THEN Py(ct) ELSE PyNone
      dp    == IF it.issued[1] = "val" THEN it.issued[2].date_parts ELSE Missing
  IN  IF IsNone(names) THEN [kind |-> "raise"]
      ELSE IF it.issued[1] = "null" THEN [kind |-> "raise"]
      ELSE IF dp[1] = "val" /\ Len(dp[2]) > 0 /\ Len(dp[2][1]) = 0
        THEN [kind |-> "raise"]
      ELSE [kind |-> "rec",
            rec  |-> [title     |-> FirstOr(it.title, NoTitle),
                      authors   |-> LET a == Join(<<",", " ">>, names[1])
                                    IN  IF Len(a) > 0 THEN a ELSE NoAuthors,
                      year      |-> IF dp[1] = "val" /\ Len(dp[2]) > 0
                                    THEN dp[2][1][1] ELSE PyNone,
                      citations |-> PyNone,
                      venue     |-> venue_title,
                      venue_all |-> venue_title,
                      doi       |-> doi_url,
                      url       |-> IF TruthyStr(doi_url) THEN doi_url ELSE Get(it.URL),
                      pdf       |-> PyNone,
                      abstract  |-> NoAbstract,
                      source    |-> "Crossref"]]

RECURSIVE CrLoop(_)
CrLoop(items) ==
  IF items = <<>> THEN [raised |-> FALSE, out |-> <<>>]
  ELSE LET one == CrItem(Head(items))
       IN  IF one.kind = "raise" THEN [raised |-> TRUE, out |-> <<>>]
           ELSE LET rest == CrLoop(Tail(items))
                IN  IF rest.raised THEN rest
                    ELSE [raised |-> FALSE, out |-> <<one.rec>> \o rest.out]

\* The request parameters _search_crossref sends: query, rows and the date
\* filters, "from-pub-date:<y>" and "until-pub-date:<y>", joined by a comma.
CrParams(query, year_from, year_to, limit) ==
  [query  |-> query,
   rows   |-> IF limit > 1 THEN limit ELSE 1,
   filter |->
     Join(<<",">>,
          (IF TruthyInt(year_from)
           THEN << <<"f","r","o","m","-","p","u","b","-","d","a","t","e",":">>
                   \o IntToStr(year_from[1]) >>
           ELSE <<>>)
          \o (IF TruthyInt(year_to)
              THEN << <<"u","n","t","i","l","-","p","u","b","-","d","a","t","e",":">>
                      \o IntToStr(year_to[1]) >>
              ELSE <<>>))]

\* PaperSearchTool._search_crossref, given the provider's answer resp.
_search_crossref(resp) ==
  IF ~resp.ok THEN [raised |-> FALSE, out |-> <<>>]
  ELSE CrLoop(resp.data)

(* ------------------- the steps of PaperSearchTool.invoke --------------- *)

\* `if venue and venue.strip()`
UsesVenue(venue) == TruthyStr(venue) /\ Len(Strip(venue[1])) > 0

\* A variant of ExpandedQuery that leaves the separating space out.
ExpandedQueryNoSpace(query, alias) == query \o alias

\* q2 = f"{query} {alias}"
ExpandedQuery(query, alias) == query \o <<" ">> \o alias

\* seen = set(self._dedupe_key(r) for r in results)
KeysOf(results) == {_dedupe_key(results[i]) : i \in 1..Len(results)}

\* A variant of MergeNew that puts a new record in front of the list.
RECURSIVE MergeNewInFront(_, _, _)
MergeNewInFront(results, seen, more) ==
  IF more = <<>> THEN [results |-> results, seen |-> seen]
  ELSE LET r == Head(more)
           k == _dedupe_key(r)
       IN  IF k \notin seen
           THEN MergeNewInFront(<<r>> \o results, seen \cup {k}, Tail(more))
           ELSE MergeNewInFront(results, seen, Tail(more))

\* The merge loop over one alias response: `for r in more: k = key(r); if k not
\* in seen: results.append(r); seen.add(k)`.  Gives the new results and seen.
RECURSIVE MergeNew(_, _, _)
MergeNew(results, seen, more) ==
  IF more = <<>> THEN [results |-> results, seen |-> seen]
  ELSE LET r == Head(more)
           k == _dedupe_key(r)
       IN  IF k \notin seen
           THEN MergeNew(Append(results, r), seen \cup {k}, Tail(more))
           ELSE MergeNew(results, seen, Tail(more))

\* A variant of VenueMatches that does not strip the venue.
VenueMatchesNoStrip(results, venue) ==
  LET v == Lower(venue[1])
  IN  SelectSeqOf(results, {r \in {results[i] : i \in 1..Len(results)} :
                              Contains(VenueText(r), v)})

\* filtered = [r for r in results if v in ((r.get("venue_all") or r.get("venue")
\* or "").lower())] with v = venue.strip().lower()
VenueMatches(results, venue) ==
  LET v == Lower(Strip(venue[1]))
  IN  SelectSeqOf(results, {r \in {results[i] : i \in 1..Len(results)} :
                              Contains(VenueText(r), v)})

\* `if filtered: results = filtered`
VenueFiltered(results, venue) ==
  LET filtered == VenueMatches(results, venue)
  IN  IF filtered # <<>> THEN filtered ELSE results

\* A variant of NeedsFallback that also falls back on a single record.
NeedsFallbackFewer(results) == Len(results) <= 1

\* `if not results:` the fallback test.
NeedsFallback(results) == results = <<>>

\* A variant of TruncateResults that returns the whole list.
TruncateNothing(results, max_results) == results

\* return results[:max_results] if results else []
TruncateResults(results, max_results) ==
  IF results # <<>> THEN Take(results, max_results) ELSE <<>>

(* ------------------------ the search flow of app.py -------------------- *)

\* max_results of both agent.run calls of app.py.
AppMaxResults == 8

\* The second-stage venue filter of app.py: `if venue and results:` the records
\* matching any alias candidate, unless there is none.
AppVenueFiltered(results, venue) ==
  IF TruthyStr(venue) /\ results # <<>>
  THEN LET cand == _alias_candidates(venue)
           filtered == IF cand # <<>>
                       THEN SelectSeqOf(results,
                              {r \in {results[i] : i \in 1..Len(results)} :
                                 _matches_any_venue(r, cand)})
                       ELSE results
       IN  IF filtered # <<>> THEN filtered ELSE results
  ELSE results

\* `if venue and _normalize_venue(venue) and len(results) == 0`
AppNeedsRerun(results, venue) ==
  TruthyStr(venue) /\ Len(_normalize_venue(venue)) > 0 /\ Len(results) = 0

(* ------------------------------- inputs ------------------------------- *)

\* All sequences over S of length at most n.
SeqsUpTo(S, n) == UNION {[1..k -> S] : k \in 0..n}

S2Raw(title, year, venue, pubname, doi, cit) ==
  [title |-> title, year |-> year, venue |-> venue, abstract |-> Missing,
   citationCount |-> cit, authors |-> Missing, url |-> Missing,
   externalIds |-> IF doi = Missing THEN Missing ELSE Val([DOI |-> doi]),
   openAccessPdf |-> Null,
   publicationVenue |-> IF pubname = Missing THEN Null ELSE Val([name |-> pubname])]

\* The items the primary provider may return: two with DOIs that differ in case
\* only, three without a DOI whose titles differ in case only, one of them of
\* another year, the last with a null title and citation count.
S2Pool ==
  { S2Raw(Val(<<"A","b">>), Val(2020), Val(<<"N","e","u","r","I","P","S">>), Missing,
          Val(<<"1","0",".","1","/","x">>), Val(60)),
    S2Raw(Val(<<"C","d">>), Val(2020), Val(<<"N","I","P","S">>), Val(<<"I","C","M","L">>),
          Val(<<"1","0",".","1","/","X">>), Val(10)),
    S2Raw(Val(<<"A","B">>), Val(2020), Val(<<"I","C","M","L">>),
          Val(<<"N","e","u","r","I","P","S">>), Missing, Val(5)),
    S2Raw(Val(<<"a","b">>), Val(2020), Val(<<"N","a","t","u","r","e">>), Missing,
          Val(<<>>), Missing),
    S2Raw(Val(<<"a","b">>), Val(2021), Missing, Val(<<"N","a","t","u","r","e">>),
          Missing, Val(0)),
    S2Raw(Null, Missing, Null, Missing, Missing, Null) }

CrRaw(title, doi, url, container, issued) ==
  [title |-> title, author |-> Missing, DOI |-> doi, URL |-> url,
   container_title |-> container, issued |-> issued]

\* The items the secondary provider may return.
CrPool ==
  { CrRaw(Val(<< <<"A","b">> >>), Val(<<"1","0",".","1","/","x">>), Missing,
          Val(<< <<"N","a","t","u","r","e">> >>),
          Val([date_parts |-> Val(<< <<Py(2020)>> >>)])),
    CrRaw(Missing, Missing, Val(<<"u">>), Val(<<>>), Missing),
    CrRaw(Val(<< <<"E","f">> >>), Missing, Missing, Missing, Null) }

\* The answers a provider may give to one request: a failed request, or a list
\* of at most n different items of pool.
Answers(pool, n) ==
  {[ok |-> FALSE, data |-> <<>>]}
  \cup {[ok |-> TRUE, data |-> d] :
          d \in {x \in SeqsUpTo(pool, n) : \A i, j \in 1..Len(x) : i < j => x[i] # x[j]}}

Min(a, b) == IF a < b THEN a ELSE b

\* The longest list the primary provider returns to a request for `limit` items,
\* after k items returned to earlier requests.
S2Room(limit, k) == Min(Min(MaxResp, MaxTotal - k), S2Params(<<>>, limit).limit)

\* The longest list the secondary provider returns to a request for `limit` rows.
CrRoom(limit) == Min(MaxResp, CrParams(<<>>, PyNone, PyNone, limit).rows)

TheQuery == <<"g","a","n">>

\* The venue arguments a direct caller passes: absent, empty, blank, a known key
\* in mixed case, a known key with blanks around it, and an unknown text with a
\* leading blank.
Venues ==
  { PyNone, Py(<<>>), Py(<<" ", " ">>), Py(<<"I","c","m","L">>),
    Py(<<" ","n","a","t","u","r","e"," ">>), Py(<<" ","I","c","m">>) }

\* The (year_from, year_to, min_citations) arguments a direct caller passes.
Filters ==
  { <<PyNone, PyNone, PyNone>>,
    <<Py(2021), PyNone, Py(0)>>,
    <<PyNone, Py(2020), Py(6)>> }

\* The widget values of the search form of app.py: the venue text input and the
\* three number inputs, which always hold an int.
Forms ==
  { [venue |-> v, year_from |-> Py(2020), year_to |-> Py(2025), min_citations |-> Py(m)] :
      v \in {<<>>, <<"N","e","u","r","I","P","S">>, <<" ","I","c","m">>}, m \in {0, 50} }

(* ------------------------------- state -------------------------------- *)

VARIABLES
  caller,         \* "direct": invoke is called as is; "app": by the search flow of app.py
  form,           \* the widget values of the search form (app.py)
  app_pc,         \* the place of the search flow: "run1", "filter", "run2", "done", "raised"; "none" for a direct call
  raw_results,    \* app.py: raw_results, what the first agent.run returned
  app_results,    \* app.py: results, stored in st.session_state.results
  query, year_from, year_to, min_citations, venue, max_results,   \* the arguments of invoke
  pc,             \* the place in invoke: "base", "alias", "filter", "check", "return", "done", "raised"
  results,        \* invoke: results
  seen,           \* invoke: seen
  aliases,        \* invoke: aliases
  alias_i,        \* invoke: how many aliases the loop has taken
  returned,       \* what invoke returned: <<>> before it returns, <<list>> after
  s2_calls,       \* history: the arguments of every _search_semantic_scholar call, in order
  s2_outs,        \* history: what each _search_semantic_scholar call returned, in order
  cr_calls,       \* history: the arguments of every _search_crossref call, in order
  cr_outs,        \* history: what each _search_crossref call returned, in order
  s2_ok,          \* history: whether the request of each _search_semantic_scholar call got an answer
  cr_ok,          \* history: whether the request of each _search_crossref call got an answer
  log_transport,  \* whether s2_ok and cr_ok are kept: only where transport failures are studied
  merged,         \* history: results as the alias loop left it, before the venue filter
  filtered_done,  \* history: whether the venue filter step has run
  n_items         \* how many items the primary provider has returned so far

VARIABLES
  cl_client,      \* a source client called on its own: "s2", "cr"; "none" when none is
  cl_pc,          \* "call" before the client has run, "done" after; "idle"
  cl_resp,        \* the provider's answer to the client's request
  cl_args,        \* the client's year_from, year_to, min_citations
  cl_got          \* what the client gave: raised or not, and the list returned

clientVars == << cl_client, cl_pc, cl_resp, cl_args, cl_got >>

VARIABLES
  lib_dir,        \* whether the directory data/ of LIB_PATH exists
  lib_file,       \* data/library.json: <<>> when there is no file, <<entries>> otherwise
  lib_log         \* history: the library calls made, each with what it was given and gave

libVars == << lib_dir, lib_file, lib_log >>

VARIABLES
  cs_pc,          \* the place in CodeSearchTool.invoke: "start", "fallback", "done"; "idle"
  cs_args,        \* the arguments of CodeSearchTool.invoke
  cs_pdf,         \* history: what the PDF step met, "none" when it has not run
  cs_search,      \* history: what the repository search met, "none" when it has not run
  cs_calls,       \* history: the steps taken, "pdf" and "search", in order
  cs_ret          \* what invoke returned: <<>> before it returns, <<list>> after

codeVars == << cs_pc, cs_args, cs_pdf, cs_search, cs_calls, cs_ret >>

VARIABLES
  al_pc,          \* "call" before the two alias functions have run, "done" after; "idle"
  al_venue,       \* the venue text given to both
  al_query_form,  \* what PaperSearchTool._venue_aliases gave
  al_matching     \* what app._alias_candidates gave

aliasVars == << al_pc, al_venue, al_query_form, al_matching >>

VARIABLES
  ses_dir,        \* two sessions at once: whether the directory data/ exists
  ses_disk,       \* data/library.json as it is on disk: no file, or a text of some length
  ses_pc,         \* where each session is in its add_to_library call
  ses_entry,      \* the entry each session saves
  ses_lib,        \* the list each session has loaded, with its entry appended once it is
  ses_ret         \* what each call gave: "none" while it runs, "accepted", "rejected", "raised"

sessionVars == << ses_dir, ses_disk, ses_pc, ses_entry, ses_lib, ses_ret >>

vars ==
  << caller, form, app_pc, raw_results, app_results,
     query, year_from, year_to, min_citations, venue, max_results,
     pc, results, seen, aliases, alias_i, returned,
     s2_calls, s2_outs, s2_ok, cr_calls, cr_outs, cr_ok, log_transport, merged,
     filtered_done, n_items,
     cl_client, cl_pc, cl_resp, cl_args, cl_got,
     lib_dir, lib_file, lib_log,
     cs_pc, cs_args, cs_pdf, cs_search, cs_calls, cs_ret,
     al_pc, al_venue, al_query_form, al_matching,
     ses_dir, ses_disk, ses_pc, ses_entry, ses_lib, ses_ret >>

\* The variables of the search: PaperSearchTool.invoke and the search flow of app.py.
searchVars ==
  << caller, form, app_pc, raw_results, app_results,
     query, year_from, year_to, min_citations, venue, max_results,
     pc, results, seen, aliases, alias_i, returned,
     s2_calls, s2_outs, s2_ok, cr_calls, cr_outs, cr_ok, merged, filtered_done, n_items >>

\* The variables of the other operations of the program, which a search never
\* touches.
otherVars == << log_transport, clientVars, libVars, codeVars, aliasVars, sessionVars >>

appVars == << caller, form, app_pc, raw_results, app_results >>
argVars == << query, year_from, year_to, min_citations, venue, max_results >>

\* The locals and the history of an invoke that has just been entered.
EnterInvoke ==
  /\ pc' = "base"
  /\ results' = <<>>
  /\ seen' = {}
  /\ aliases' = <<>>
  /\ alias_i' = 0
  /\ returned' = <<>>
  /\ s2_calls' = <<>>
  /\ s2_outs' = <<>>
  /\ cr_calls' = <<>>
  /\ cr_outs' = <<>>
  /\ s2_ok' = <<>>
  /\ cr_ok' = <<>>
  /\ merged' = <<>>
  /\ filtered_done' = FALSE

InitInvoke ==
  /\ pc = "base"
  /\ results = <<>>
  /\ seen = {}
  /\ aliases = <<>>
  /\ alias_i = 0
  /\ returned = <<>>
  /\ s2_calls = <<>>
  /\ s2_outs = <<>>
  /\ cr_calls = <<>>
  /\ cr_outs = <<>>
  /\ s2_ok = <<>>
  /\ cr_ok = <<>>
  /\ merged = <<>>
  /\ filtered_done = FALSE
  /\ n_items = 0

\* invoke called directly with any of the arguments tried.
InitDirect ==
  /\ caller = "direct"
  /\ app_pc = "none"
  /\ form = [venue |-> <<>>, year_from |-> PyNone, year_to |-> PyNone, min_citations |-> PyNone]
  /\ query = TheQuery
  /\ venue \in Venues
  /\ max_results \in 0..MaxMaxResults
  /\ \E f \in Filters : year_from = f[1] /\ year_to = f[2] /\ min_citations = f[3]

\* The search form submitted with a query: the first agent.run of app.py.
InitApp ==
  /\ caller = "app"
  /\ app_pc = "run1"
  /\ form \in Forms
  /\ query = TheQuery
  /\ venue = Py(form.venue)
  /\ max_results = AppMaxResults
  /\ year_from = form.year_from
  /\ year_to = form.year_to
  /\ min_citations = form.min_citations

\* No source client is being called on its own.
ClientIdle ==
  /\ cl_client = "none"
  /\ cl_pc = "idle"
  /\ cl_resp = [ok |-> FALSE, data |-> <<>>]
  /\ cl_args = [year_from |-> PyNone, year_to |-> PyNone, min_citations |-> PyNone]
  /\ cl_got = [raised |-> FALSE, out |-> <<>>]

\* The library is not used.
LibraryIdle ==
  /\ lib_dir = FALSE
  /\ lib_file = PyNone
  /\ lib_log = <<>>

\* No code search is running.
CodeIdle ==
  /\ cs_pc = "idle"
  /\ cs_args = [title |-> PyNone, authors |-> <<>>, pdf_url |-> PyNone, max_results |-> 0]
  /\ cs_pdf = [kind |-> "none"]
  /\ cs_search = [kind |-> "none"]
  /\ cs_calls = <<>>
  /\ cs_ret = <<>>

\* The two alias functions are not being compared.
AliasIdle ==
  /\ al_pc = "idle"
  /\ al_venue = PyNone
  /\ al_query_form = <<>>
  /\ al_matching = <<>>

\* No two sessions are saving at once.
SessionsIdle ==
  /\ ses_dir = FALSE
  /\ ses_disk = [there |-> FALSE, valid |-> FALSE, lib |-> <<>>, size |-> 0]
  /\ ses_pc = <<"idle", "idle">>
  /\ ses_entry = <<PyNone, PyNone>>
  /\ ses_lib = << <<>>, <<>> >>
  /\ ses_ret = <<"none", "none">>

OthersIdle == ClientIdle /\ LibraryIdle /\ CodeIdle /\ AliasIdle /\ SessionsIdle

Init ==
  /\ InitInvoke
  /\ raw_results = <<>>
  /\ app_results = <<>>
  /\ (InitDirect \/ InitApp)
  /\ log_transport = FALSE
  /\ OthersIdle

(* ------------------------------ actions ------------------------------- *)

\* An uncaught exception leaves invoke, and the search flow of app.py with it.
Raise ==
  /\ pc' = "raised"
  /\ app_pc' = IF caller = "app" THEN "raised" ELSE app_pc

\* The arguments invoke passes to _search_semantic_scholar, and the request
\* parameters the client builds from them.
S2Call(q, yf, yt, mc, limit) ==
  [query |-> q, year_from |-> yf, year_to |-> yt, min_citations |-> mc, limit |-> limit,
   params |-> S2Params(q, limit)]

\* A variant of CrCall that passes no year bounds.
CrCallNoYears(q, yf, yt, limit) ==
  [query |-> q, year_from |-> PyNone, year_to |-> PyNone, limit |-> limit,
   params |-> CrParams(q, PyNone, PyNone, limit)]

\* The arguments invoke passes to _search_crossref (lines 69-74), and the request
\* parameters the client builds from them.
CrCall(q, yf, yt, limit) ==
  [query |-> q, year_from |-> yf, year_to |-> yt, limit |-> limit,
   params |-> CrParams(q, yf, yt, limit)]

\* Lines 29-42: the base call, results and seen seeded from it, and the alias
\* list resolved when a venue is given.
BaseCall ==
  /\ pc = "base"
  /\ \E resp \in Answers(S2Pool, S2Room(max_results, n_items)) :
       LET got == _search_semantic_scholar(resp, year_from, year_to, min_citations)
       IN  /\ n_items' = n_items + Len(resp.data)
           /\ s2_ok' = IF log_transport THEN Append(s2_ok, resp.ok) ELSE s2_ok
           /\ s2_calls' = Append(s2_calls, S2Call(query, year_from, year_to, min_citations, max_results))
           /\ IF got.raised
              THEN /\ Raise
                   /\ UNCHANGED << results, seen, aliases, s2_outs, merged >>
              ELSE /\ results' = got.out
                   /\ seen' = KeysOf(got.out)
                   /\ s2_outs' = Append(s2_outs, got.out)
                   /\ aliases' = IF UsesVenue(venue) THEN _venue_aliases(venue) ELSE <<>>
                   /\ pc' = IF UsesVenue(venue) THEN "alias" ELSE "check"
                   /\ merged' = IF UsesVenue(venue) THEN merged ELSE got.out
                   /\ app_pc' = app_pc
  /\ UNCHANGED << caller, form, raw_results, app_results, argVars, alias_i, returned,
                  cr_calls, cr_outs, cr_ok, filtered_done >>
  /\ UNCHANGED otherVars

\* Lines 43-56: one turn of the alias loop, the call for the next alias and the
\* merge of its records.
AliasCall ==
  /\ pc = "alias"
  /\ alias_i < Len(aliases)
  /\ \E resp \in Answers(S2Pool, S2Room(max_results, n_items)) :
       LET q2  == ExpandedQuery(query, aliases[alias_i + 1])
           got == _search_semantic_scholar(resp, year_from, year_to, min_citations)
           m   == MergeNew(results, seen, got.out)
       IN  /\ n_items' = n_items + Len(resp.data)
           /\ s2_ok' = IF log_transport THEN Append(s2_ok, resp.ok) ELSE s2_ok
           /\ s2_calls' = Append(s2_calls, S2Call(q2, year_from, year_to, min_citations, max_results))
           /\ IF got.raised
              THEN /\ Raise
                   /\ UNCHANGED << results, seen, alias_i, s2_outs >>
              ELSE /\ results' = m.results
                   /\ seen' = m.seen
                   /\ alias_i' = alias_i + 1
                   /\ s2_outs' = Append(s2_outs, got.out)
                   /\ pc' = pc
                   /\ app_pc' = app_pc
  /\ UNCHANGED << caller, form, raw_results, app_results, argVars, aliases, returned,
                  cr_calls, cr_outs, cr_ok, merged, filtered_done >>
  /\ UNCHANGED otherVars

\* Lines 59-65: the venue filter, once the alias loop has ended.
VenueFilter ==
  /\ pc = "alias"
  /\ alias_i = Len(aliases)
  /\ merged' = results
  /\ results' = VenueFiltered(results, venue)
  /\ filtered_done' = TRUE
  /\ pc' = "check"
  /\ UNCHANGED << appVars, argVars, seen, aliases, alias_i, returned,
                  s2_calls, s2_outs, s2_ok, cr_calls, cr_outs, cr_ok, n_items >>
  /\ UNCHANGED otherVars

\* Lines 68-74: the fallback call, when results is empty.
Fallback ==
  /\ pc = "check"
  /\ NeedsFallback(results)
  /\ \E resp \in Answers(CrPool, CrRoom(max_results)) :
       LET got == _search_crossref(resp)
       IN  /\ cr_calls' = Append(cr_calls, CrCall(query, year_from, year_to, max_results))
           /\ cr_ok' = IF log_transport THEN Append(cr_ok, resp.ok) ELSE cr_ok
           /\ IF got.raised
              THEN /\ Raise
                   /\ UNCHANGED << results, cr_outs >>
              ELSE /\ results' = got.out
                   /\ cr_outs' = Append(cr_outs, got.out)
                   /\ pc' = "return"
                   /\ app_pc' = app_pc
  /\ UNCHANGED << caller, form, raw_results, app_results, argVars, seen, aliases, alias_i,
                  returned, s2_calls, s2_outs, s2_ok, merged, filtered_done, n_items >>
  /\ UNCHANGED otherVars

\* Line 77: the truncated list is returned.
Return ==
  /\ pc = "return" \/ (pc = "check" /\ ~NeedsFallback(results))
  /\ returned' = <<TruncateResults(results, max_results)>>
  /\ pc' = "done"
  /\ UNCHANGED << appVars, argVars, results, seen, aliases, alias_i,
                  s2_calls, s2_outs, s2_ok, cr_calls, cr_outs, cr_ok, merged, filtered_done, n_items >>
  /\ UNCHANGED otherVars

\* app.py lines 169-185: raw_results taken from the first agent.run, then the
\* alias-candidate venue filter.
AppVenueFilter ==
  /\ app_pc = "run1"
  /\ pc = "done"
  /\ raw_results' = returned[1]
  /\ app_results' = AppVenueFiltered(returned[1], Py(form.venue))
  /\ app_pc' = "filter"
  /\ UNCHANGED << caller, form, argVars, pc, results, seen, aliases, alias_i, returned,
                  s2_calls, s2_outs, s2_ok, cr_calls, cr_outs, cr_ok, merged, filtered_done, n_items >>
  /\ UNCHANGED otherVars

\* app.py lines 188-197: with a venue given and nothing found, agent.run is
\* called again without the venue.
AppRerun ==
  /\ app_pc = "filter"
  /\ AppNeedsRerun(app_results, Py(form.venue))
  /\ app_pc' = "run2"
  /\ venue' = PyNone
  /\ EnterInvoke
  /\ UNCHANGED << caller, form, raw_results, app_results,
                  query, year_from, year_to, min_citations, max_results, n_items >>
  /\ UNCHANGED otherVars

\* app.py lines 190-200: results taken from the second agent.run and stored.
AppRerunDone ==
  /\ app_pc = "run2"
  /\ pc = "done"
  /\ app_results' = returned[1]
  /\ app_pc' = "done"
  /\ UNCHANGED << caller, form, raw_results, argVars, pc, results, seen, aliases, alias_i,
                  returned, s2_calls, s2_outs, s2_ok, cr_calls, cr_outs, cr_ok, merged, filtered_done,
                  n_items >>
  /\ UNCHANGED otherVars

\* app.py lines 188, 200: nothing to search again, the results are stored.
AppStore ==
  /\ app_pc = "filter"
  /\ ~AppNeedsRerun(app_results, Py(form.venue))
  /\ app_pc' = "done"
  /\ UNCHANGED << caller, form, raw_results, app_results, argVars, pc, results, seen,
                  aliases, alias_i, returned, s2_calls, s2_outs, s2_ok, cr_calls, cr_outs, cr_ok, merged,
                  filtered_done, n_items >>
  /\ UNCHANGED otherVars

Next ==
  \/ BaseCall
  \/ AliasCall
  \/ VenueFilter
  \/ Fallback
  \/ Return
  \/ AppVenueFilter
  \/ AppRerun
  \/ AppRerunDone
  \/ AppStore

Spec == Init /\ [][Next]_vars

(* ------------------------------ properties ---------------------------- *)

\* The outputs of a list of client calls, one after the other.
RECURSIVE Flatten(_)
Flatten(outs) == IF outs = <<>> THEN <<>> ELSE Head(outs) \o Flatten(Tail(outs))

\* invoke has returned a list.
Returned == pc = "done"

\* The records of xs, in order, that satisfy the venue containment of the
\* specification: the trimmed, lowercased venue is a substring of the lowercased
\* venue_all, or of venue when venue_all is absent or empty.
RECURSIVE ContainingVenue(_, _)
ContainingVenue(xs, v) ==
  IF xs = <<>> THEN <<>>
  ELSE LET r == Head(xs)
           text == IF Len(r.venue_all) = 1 /\ r.venue_all[1] # <<>> THEN r.venue_all[1]
                   ELSE IF Len(r.venue) = 1 THEN r.venue[1] ELSE <<>>
       IN  (IF Contains(Lower(text), Lower(Strip(v))) THEN <<r>> ELSE <<>>)
           \o ContainingVenue(Tail(xs), v)

\* The list invoke has before it truncates, told from the history: the merged
\* list, venue-filtered when a filter applies and keeps something, or the
\* fallback's output when the merged list is empty.
Untruncated ==
  IF merged # <<>>
  THEN IF filtered_done /\ ContainingVenue(merged, venue[1]) # <<>>
       THEN ContainingVenue(merged, venue[1])
       ELSE merged
  ELSE Flatten(cr_outs)

\* C1: the list invoke returns is no longer than max_results and is the first
\* max_results elements, in order, of the untruncated merged and filtered (or
\* fallback) list.
C1_Truncation ==
  Returned =>
    LET whole == Untruncated
    IN  /\ Len(returned[1]) <= max_results
        /\ Len(returned[1]) = (IF Len(whole) < max_results THEN Len(whole) ELSE max_results)
        /\ \A i \in 1..Len(returned[1]) : returned[1][i] = whole[i]

\* C1 witness: a venue-filtered list longer than max_results was cut.
C1_Witness ==
  /\ Returned
  /\ filtered_done
  /\ max_results >= 1
  /\ Len(results) > max_results
  /\ Len(merged) > Len(results)

\* Every primary call of this invoke returned no record.
PrimaryEmpty == \A i \in 1..Len(s2_outs) : s2_outs[i] = <<>>

\* C2: when the base call and every alias call return no record, invoke returns
\* the output of one Crossref call, made with the original query and year bounds,
\* truncated to max_results and not venue-filtered.
C2_FallbackOutput ==
  (Returned /\ PrimaryEmpty) =>
    /\ Len(cr_calls) = 1
    /\ cr_calls[1].query = query
    /\ cr_calls[1].year_from = year_from
    /\ cr_calls[1].year_to = year_to
    /\ Len(cr_outs) = 1
    /\ returned[1] = Take(cr_outs[1], max_results)

\* C2 witness: with a venue given, the fallback returned a record that does not
\* contain the venue, and invoke returned it.
C2_Witness ==
  /\ Returned
  /\ PrimaryEmpty
  /\ UsesVenue(venue)
  /\ Len(s2_outs) = 1 + Len(aliases)
  /\ Len(aliases) >= 2
  /\ Len(returned[1]) >= 1
  /\ ContainingVenue(returned[1], venue[1]) = <<>>

\* The primary calls a finished alias phase has made: the base call and one call
\* per alias when a venue is used.
PrimaryCallsDue == IF UsesVenue(venue) THEN 1 + Len(_venue_aliases(venue)) ELSE 1

\* C3 (state part): a Crossref call has been made only if every primary call and
\* the venue filter are over and the working list was empty; and when some
\* primary call returned a record, no Crossref call is made and every returned
\* record is tagged Semantic Scholar.
C3_State ==
  /\ cr_calls # <<>> =>
       /\ Len(s2_outs) = PrimaryCallsDue
       /\ UsesVenue(venue) => filtered_done
       /\ merged = <<>>
       /\ PrimaryEmpty
  /\ ~PrimaryEmpty =>
       /\ cr_calls = <<>>
       /\ Returned => \A i \in 1..Len(returned[1]) : returned[1][i].source = "Semantic Scholar"

\* C3 (step part): the step that calls Crossref starts where the base call, all
\* alias calls and the venue filter have completed and the working list is empty.
C3_Step ==
  Len(cr_calls') > Len(cr_calls) =>
    /\ Len(s2_calls) = PrimaryCallsDue
    /\ Len(s2_outs) = PrimaryCallsDue
    /\ UsesVenue(venue) => filtered_done
    /\ results = <<>>
    /\ cr_calls = <<>>

\* C3: the secondary client is called only after the primary calls and the venue
\* filter, only on an empty working list, and never once the primary source has
\* yielded a record.
C3_FallbackOnlyWhenEmpty == [][C3_Step]_vars /\ []C3_State

\* C3 witness: the primary source yielded records none of which contains the
\* venue; the filter kept them all, no fallback was made, and they were returned.
C3_Witness ==
  /\ Returned
  /\ UsesVenue(venue)
  /\ merged # <<>>
  /\ ContainingVenue(merged, venue[1]) = <<>>
  /\ cr_calls = <<>>
  /\ Len(returned[1]) >= 1

\* Two records with the same non-empty DOI, compared without case.
SameDoi(a, b) ==
  /\ Len(a.doi) = 1 /\ Len(b.doi) = 1
  /\ a.doi[1] # <<>> /\ b.doi[1] # <<>>
  /\ Lower(a.doi[1]) = Lower(b.doi[1])

HasNoDoi(a) == Len(a.doi) = 0 \/ a.doi[1] = <<>>

\* Two records with the same lowercased title and the same year.
SameTitleYear(a, b) == Lower(a.title) = Lower(b.title) /\ a.year = b.year

\* C4: in the working list built from the base response and the alias responses,
\* no two records have the same DOI and no two DOI-less records have the same
\* (lowercased title, year), whichever responses they came in.
C4_NoDuplicates ==
  (pc \in {"alias", "check"} /\ cr_calls = <<>>) =>
    \A i, j \in 1..Len(results) :
      i < j =>
        /\ ~SameDoi(results[i], results[j])
        /\ ~(HasNoDoi(results[i]) /\ HasNoDoi(results[j])
             /\ SameTitleYear(results[i], results[j]))

\* The merge of the claim C5 states: a record is dropped when a kept record is the
\* same paper, that is, has the same DOI, or one of the two has no DOI and title
\* and year are equal.
SamePaperAsStated(a, b) ==
  \/ SameDoi(a, b)
  \/ (HasNoDoi(a) \/ HasNoDoi(b)) /\ SameTitleYear(a, b)

\* The relation the membership test implements: the same DOI, or both without a
\* DOI and title and year equal.
SamePaperAsKeyed(a, b) ==
  \/ SameDoi(a, b)
  \/ HasNoDoi(a) /\ HasNoDoi(b) /\ SameTitleYear(a, b)

RECURSIVE MergeAsStated(_, _)
MergeAsStated(kept, more) ==
  IF more = <<>> THEN kept
  ELSE MergeAsStated(
         IF \E i \in 1..Len(kept) : SamePaperAsStated(kept[i], Head(more))
         THEN kept ELSE Append(kept, Head(more)),
         Tail(more))

RECURSIVE MergeAsKeyed(_, _)
MergeAsKeyed(kept, more) ==
  IF more = <<>> THEN kept
  ELSE MergeAsKeyed(
         IF \E i \in 1..Len(kept) : SamePaperAsKeyed(kept[i], Head(more))
         THEN kept ELSE Append(kept, Head(more)),
         Tail(more))

\* The base response followed by every alias response merged in with MergeAsStated.
RECURSIVE FoldAsStated(_, _)
FoldAsStated(kept, outs) ==
  IF outs = <<>> THEN kept ELSE FoldAsStated(MergeAsStated(kept, Head(outs)), Tail(outs))

RECURSIVE FoldAsKeyed(_, _)
FoldAsKeyed(kept, outs) ==
  IF outs = <<>> THEN kept ELSE FoldAsKeyed(MergeAsKeyed(kept, Head(outs)), Tail(outs))

\* C5 as stated: every alias record is merged by the same-paper relation in which
\* a missing DOI on either side falls back to (lowercased title, year).
C5_AsStated ==
  (pc = "alias" /\ s2_outs # <<>>) =>
    results = FoldAsStated(Head(s2_outs), Tail(s2_outs))

\* C5 amended: every alias record is merged by the relation "same DOI without
\* case, or both without DOI and the same (lowercased title, year)".
C5_MembershipTest ==
  (pc = "alias" /\ s2_outs # <<>>) =>
    results = FoldAsKeyed(Head(s2_outs), Tail(s2_outs))

\* C5 witness: an alias response brought a record whose DOI differs only in case
\* from a kept record's, which was dropped, and a DOI-less record with the title
\* and year of a DOI-bearing kept record, which was kept.
C5_Witness ==
  /\ pc = "alias"
  /\ Len(s2_outs) = 2
  /\ Len(s2_outs[1]) = 1
  /\ Len(s2_outs[2]) = 2
  /\ Len(results) = 2
  /\ SameDoi(s2_outs[1][1], s2_outs[2][1])
  /\ s2_outs[1][1] # s2_outs[2][1]
  /\ results[2] = s2_outs[2][2]
  /\ HasNoDoi(results[2])
  /\ SameTitleYear(results[1], results[2])


\* C6: with a non-empty venue and a non-empty merged list: if some merged record
\* contains the trimmed, lowercased venue, invoke returns exactly the containing
\* records, in merge order, truncated; if none does, the filter has no effect and
\* the merged list is returned, truncated.
C6_VenueFilter ==
  (Returned /\ Len(venue) = 1 /\ venue[1] # <<>> /\ merged # <<>>) =>
    LET hits == ContainingVenue(merged, venue[1])
    IN  IF hits # <<>>
        THEN /\ returned[1] = Take(hits, max_results)
             /\ ContainingVenue(returned[1], venue[1]) = returned[1]
        ELSE /\ results = merged
             /\ returned[1] = Take(merged, max_results)

\* C6 witness: the filter, given a venue with blanks around it, removed a record
\* from between two it kept, and both were returned.
C6_Witness ==
  /\ Returned
  /\ UsesVenue(venue)
  /\ Strip(venue[1]) # venue[1]
  /\ Len(merged) = 3
  /\ Len(returned[1]) = 2
  /\ returned[1][1] = merged[1]
  /\ returned[1][2] = merged[3]

\* "N","e","u","r","I","P","S"
NeurIPS == <<"N","e","u","r","I","P","S">>

\* The configured aliases of NeurIPS, in lowercase.
NeurIPSAliasesLower ==
  LET a == LookupAlias(VenueAliasTable, Lower(NeurIPS))[1]
  IN  {Lower(a[i]) : i \in 1..Len(a)}

\* The records of xs, in order, whose venue text contains "neurips" or a
\* configured alias of it in lowercase.
RECURSIVE ContainingNeurIPS(_)
ContainingNeurIPS(xs) ==
  IF xs = <<>> THEN <<>>
  ELSE LET r == Head(xs)
           text == Lower(IF Len(r.venue_all) = 1 /\ r.venue_all[1] # <<>> THEN r.venue_all[1]
                         ELSE IF Len(r.venue) = 1 THEN r.venue[1] ELSE <<>>)
       IN  (IF Contains(text, Lower(NeurIPS))
               \/ \E a \in NeurIPSAliasesLower : Contains(text, a)
            THEN <<r>> ELSE <<>>)
           \o ContainingNeurIPS(Tail(xs))

AliasesAsStated(v) ==
  LET t   == Lower(Strip(StrOrEmpty(v)))
      hit == LookupAlias(VenueAliasTable, t)
  IN  IF ~IsNone(hit) THEN hit[1]
      ELSE IF Len(t) > 0 THEN <<Strip(v[1])>> ELSE <<>>

\* C8: the alias list invoke resolves is the dictionary's list for a known key
\* and the single trimmed input for an unknown one.
C8_AliasesAsStated ==
  (pc \in {"alias", "check", "return", "done"} /\ UsesVenue(venue)) =>
    aliases = AliasesAsStated(venue)

\* The primary calls the claim C9 states, in order: the base call, then one call
\* per alias with the text "<query> <alias>", all with the same filters and limit.
CallsAsStated ==
  LET al == IF UsesVenue(venue) THEN _venue_aliases(venue) ELSE <<>>
      call(q) == [query |-> q, year_from |-> year_from, year_to |-> year_to,
                  min_citations |-> min_citations, limit |-> max_results]
  IN  <<call(query)>> \o [i \in 1..Len(al) |-> call(query \o <<" ">> \o al[i])]

\* The arguments of a logged call, without the request parameters.
ArgsOf(c) == [query |-> c.query, year_from |-> c.year_from, year_to |-> c.year_to,
              min_citations |-> c.min_citations, limit |-> c.limit]

\* C9: the primary calls made so far are the first of the stated calls, in their
\* order, and once the alias phase is over they are all of them: 1 + |aliases|
\* with a venue, one without (absent, empty or blank).
C9_PrimaryCalls ==
  LET stated == CallsAsStated
  IN  /\ Len(s2_calls) <= Len(stated)
      /\ \A i \in 1..Len(s2_calls) : ArgsOf(s2_calls[i]) = stated[i]
      /\ \A i \in 1..Len(s2_calls) : s2_calls[i].params.limit = s2_calls[1].params.limit
      /\ pc \in {"check", "return", "done"} =>
           /\ Len(s2_calls) = Len(stated)
           /\ Len(s2_calls) = (IF Len(venue) = 1 /\ Strip(venue[1]) # <<>>
                               THEN 1 + Len(aliases) ELSE 1)

\* C9 witness: invoke returned after the base call and the four alias calls of
\* NeurIPS.
C9_Witness ==
  /\ Returned
  /\ venue = <<NeurIPS>>
  /\ Len(s2_calls) = 5
  /\ s2_calls[5].query = query \o <<" ">> \o
       <<"A","d","v","a","n","c","e","s"," ","i","n"," ","N","e","u","r","a","l"," ",
         "I","n","f","o","r","m","a","t","i","o","n"," ","P","r","o","c","e","s","s","i","n","g"," ",
         "S","y","s","t","e","m","s">>

\* The records of more, in order, whose key no record of kept nor an earlier
\* record of more has.
RECURSIVE NotYetSeen(_, _)
NotYetSeen(kept, more) ==
  IF more = <<>> THEN <<>>
  ELSE IF \E i \in 1..Len(kept) : _dedupe_key(kept[i]) = _dedupe_key(Head(more))
       THEN NotYetSeen(kept, Tail(more))
       ELSE <<Head(more)>> \o NotYetSeen(Append(kept, Head(more)), Tail(more))

\* The base records, then each later call's not-yet-seen records, in call order.
RECURSIVE MergedInCallOrder(_, _)
MergedInCallOrder(kept, outs) ==
  IF outs = <<>> THEN kept
  ELSE MergedInCallOrder(kept \o NotYetSeen(kept, Head(outs)), Tail(outs))

\* xs is an order-preserving subsequence of ys.
RECURSIVE IsSubseq(_, _)
IsSubseq(xs, ys) ==
  IF xs = <<>> THEN TRUE
  ELSE IF ys = <<>> THEN FALSE
  ELSE IF Head(xs) = Head(ys) THEN IsSubseq(Tail(xs), Tail(ys))
  ELSE IsSubseq(xs, Tail(ys))

\* C10: the working list is the base records in provider order followed by each
\* alias call's not-yet-seen records, in call order and provider order; and the
\* returned list is an order-preserving subsequence of the provider responses
\* put one after the other in call order.
C10_MergeOrder ==
  /\ (pc = "alias" /\ s2_outs # <<>>) =>
       results = MergedInCallOrder(Head(s2_outs), Tail(s2_outs))
  /\ (pc \in {"check", "return", "done"} /\ s2_outs # <<>>) =>
       merged = MergedInCallOrder(Head(s2_outs), Tail(s2_outs))
  /\ Returned => IsSubseq(returned[1], Flatten(s2_outs) \o Flatten(cr_outs))

\* C10 witness: the base call and two alias calls each brought a new record, and
\* the three were returned in call order.
C10_Witness ==
  /\ Returned
  /\ Len(s2_outs) >= 3
  /\ Len(s2_outs[1]) = 1 /\ Len(s2_outs[2]) = 1 /\ Len(s2_outs[3]) = 1
  /\ returned[1] = <<s2_outs[1][1], s2_outs[2][1], s2_outs[3][1]>>
  /\ s2_outs[1][1] # s2_outs[2][1]
  /\ s2_outs[2][1] # s2_outs[3][1]

(* -------------------- the filters on the whole search ----------------- *)

\* invoke was called with year_from, year_to and min_citations all given.
AllFiltersSet == ~IsNone(year_from) /\ ~IsNone(year_to) /\ ~IsNone(min_citations)

\* The record has a known year within the bounds and a known citation count of
\* at least min_citations.
WithinFilters(r) ==
  /\ ~IsNone(r.year)
  /\ r.year[1] >= year_from[1]
  /\ r.year[1] <= year_to[1]
  /\ ~IsNone(r.citations)
  /\ r.citations[1] >= min_citations[1]

DateRange(yf, yt) ==
  <<"f","r","o","m","-","p","u","b","-","d","a","t","e",":">> \o IntToStr(yf)
  \o <<",">> \o <<"u","n","t","i","l","-","p","u","b","-","d","a","t","e",":">> \o IntToStr(yt)

FailVenues == { PyNone, Py(<<"I","c","m","L">>) }

\* invoke called directly, with the outcome of every request logged.
FailInit ==
  /\ InitInvoke
  /\ raw_results = <<>>
  /\ app_results = <<>>
  /\ InitDirect
  /\ venue \in FailVenues
  /\ log_transport = TRUE
  /\ OthersIdle

FailNext ==
  \/ BaseCall
  \/ AliasCall
  \/ VenueFilter
  \/ Fallback
  \/ Return

FailSpec == FailInit /\ [][FailNext]_vars

\* Every primary request of the invocation failed.
AllPrimaryFailed == \A i \in 1..Len(s2_ok) : ~s2_ok[i]

\* What holds of the log of an invocation: a failed request gave [] to its call;
\* an exception never comes from a failed request; once the alias loop is over
\* every primary call has been made, once each, whatever failed; and when every
\* primary request failed, the secondary client is called, and a failure there
\* makes invoke return [].
C16_State ==
  /\ Len(s2_ok) = Len(s2_calls)
  /\ Len(cr_ok) = Len(cr_calls)
  /\ \A i \in 1..Len(s2_outs) : ~s2_ok[i] => s2_outs[i] = <<>>
  /\ \A i \in 1..Len(cr_outs) : ~cr_ok[i] => cr_outs[i] = <<>>
  /\ pc = "raised" => IF cr_calls # <<>> THEN cr_ok[Len(cr_ok)] ELSE s2_ok[Len(s2_ok)]
  /\ pc \in {"check", "return", "done"} => Len(s2_calls) = PrimaryCallsDue
  /\ (pc \in {"return", "done"} /\ AllPrimaryFailed) => Len(cr_calls) = 1
  /\ (pc = "done" /\ AllPrimaryFailed /\ ~cr_ok[1]) => returned = << <<>> >>

\* A step whose request fails goes on as the code does after an empty result:
\* from the base call to the alias loop (or past it, with no venue), from an
\* alias call to the next turn of the loop, from the fallback to the return, with
\* results as it was.
C16_Step ==
  /\ (Len(s2_ok') = Len(s2_ok) + 1 /\ ~s2_ok'[Len(s2_ok')])
       => /\ pc' = IF pc = "base" /\ ~UsesVenue(venue) THEN "check" ELSE "alias"
          /\ results' = results
          /\ pc = "alias" => alias_i' = alias_i + 1
  /\ (Len(cr_ok') = Len(cr_ok) + 1 /\ ~cr_ok'[Len(cr_ok')])
       => pc' = "return" /\ results' = <<>>

\* C16: a failed request (network error, timeout, non-success status) in any one
\* source-client call is an empty result of that call only, with no retry and no
\* exception: the calls that remain are made, the fallback runs when every
\* primary call failed, and invoke returns [] when the fallback fails too.
C16_TransportFailure == [][C16_Step]_vars /\ []C16_State

\* An invocation with a venue has returned after its three primary requests and
\* the request of the fallback all failed.
C16_Witness ==
  /\ pc = "done"
  /\ Len(s2_ok) = 3
  /\ AllPrimaryFailed
  /\ cr_ok = <<FALSE>>
  /\ returned = << <<>> >>

(* ------------------- the source clients on their own ------------------ *)

BareDoi == <<"1","0",".","1","/","x">>

\* A DOI the provider gives as a full URL already.
UrlDoi == DoiPrefix \o BareDoi

\* The items the primary provider may return to a client called on its own: one
\* with every field known, then the same with one field at a time changed,
\* missing or null, and one with no field at all.
ClS2Base ==
  S2Raw(Val(<<"T">>), Val(2020), Val(<<"V">>), Missing, Val(BareDoi), Val(5))

ClS2Items ==
  {ClS2Base}
  \cup {[ClS2Base EXCEPT !.year = y] : y \in {Missing, Null, Val(0), Val(2019), Val(2026)}}
  \cup {[ClS2Base EXCEPT !.citationCount = c] : c \in {Missing, Null, Val(0), Val(4)}}
  \cup {[ClS2Base EXCEPT !.externalIds = e] :
          e \in {Null, Val([DOI |-> Null]), Val([DOI |-> Val(UrlDoi)])}}
  \cup {[ClS2Base EXCEPT !.authors = a] :
          a \in {Null, Val(<<>>), Val(<<[name |-> Null]>>),
                 Val(<<[name |-> Val(<<"A">>)], [name |-> Missing]>>)}}
  \cup {[ClS2Base EXCEPT !.title = Null, !.abstract = Null],
        [ClS2Base EXCEPT !.title = Val(<<>>), !.abstract = Val(<<"x">>)],
        [ClS2Base EXCEPT !.url = Val(<<"u">>), !.openAccessPdf = Val([url |-> Val(<<"p">>)])],
        [f \in DOMAIN ClS2Base |-> Missing]}

\* The items the secondary provider may return to a client called on its own.
ClCrBase ==
  CrRaw(Val(<< <<"T">> >>), Val(BareDoi), Missing, Val(<< <<"V">> >>),
        Val([date_parts |-> Val(<< <<Py(2020)>> >>)]))

ClCrItems ==
  {ClCrBase}
  \cup {[ClCrBase EXCEPT !.DOI = d] : d \in {Missing, Null, Val(UrlDoi)}}
  \cup {[ClCrBase EXCEPT !.issued = i] :
          i \in {Missing, Null, Val([date_parts |-> Missing]), Val([date_parts |-> Null]),
                 Val([date_parts |-> Val(<<>>)]), Val([date_parts |-> Val(<< <<>> >>)]),
                 Val([date_parts |-> Val(<< <<PyNone>> >>)])}}
  \cup {[ClCrBase EXCEPT !.author = a] :
          a \in {Null, Val(<<>>), Val(<<[given |-> Val(<<"A">>), family |-> Null]>>)}}
  \cup {[ClCrBase EXCEPT !.title = Null, !.container_title = Null],
        [ClCrBase EXCEPT !.title = Val(<<>>), !.DOI = Missing, !.URL = Val(<<"u">>)],
        [f \in DOMAIN ClCrBase |-> Missing]}

\* The (year_from, year_to, min_citations) a client called on its own is given.
ClArgs ==
  { [year_from |-> f[1], year_to |-> f[2], min_citations |-> f[3]] :
      f \in { <<PyNone, PyNone, PyNone>>, <<PyNone, PyNone, Py(0)>>, <<PyNone, PyNone, Py(5)>>,
              <<Py(2020), PyNone, PyNone>>, <<PyNone, Py(2025), PyNone>>,
              <<PyNone, Py(0), PyNone>>, <<Py(2020), Py(2025), Py(5)>> } }

\* The search is not running.
SearchIdle ==
  /\ caller = "none"
  /\ app_pc = "none"
  /\ form = [venue |-> <<>>, year_from |-> PyNone, year_to |-> PyNone, min_citations |-> PyNone]
  /\ raw_results = <<>>
  /\ app_results = <<>>
  /\ query = <<>>
  /\ year_from = PyNone
  /\ year_to = PyNone
  /\ min_citations = PyNone
  /\ venue = PyNone
  /\ max_results = 0
  /\ InitInvoke
  /\ log_transport = FALSE

ClientInit ==
  /\ SearchIdle
  /\ LibraryIdle
  /\ CodeIdle
  /\ AliasIdle
  /\ SessionsIdle
  /\ cl_pc = "call"
  /\ cl_got = [raised |-> FALSE, out |-> <<>>]
  /\ \/ /\ cl_client = "s2"
        /\ cl_resp \in Answers(ClS2Items, MaxResp)
        /\ cl_args \in ClArgs
     \/ /\ cl_client = "cr"
        /\ cl_resp \in Answers(ClCrItems, MaxResp)
        /\ cl_args = [year_from |-> PyNone, year_to |-> PyNone, min_citations |-> PyNone]

\* _search_semantic_scholar run on the provider's answer.
ClS2Call ==
  /\ cl_pc = "call"
  /\ cl_client = "s2"
  /\ cl_got' = _search_semantic_scholar(cl_resp, cl_args.year_from, cl_args.year_to,
                                        cl_args.min_citations)
  /\ cl_pc' = "done"
  /\ UNCHANGED << cl_client, cl_resp, cl_args, searchVars, log_transport, libVars, codeVars, aliasVars, sessionVars >>

\* _search_crossref run on the provider's answer.
ClCrCall ==
  /\ cl_pc = "call"
  /\ cl_client = "cr"
  /\ cl_got' = _search_crossref(cl_resp)
  /\ cl_pc' = "done"
  /\ UNCHANGED << cl_client, cl_resp, cl_args, searchVars, log_transport, libVars, codeVars, aliasVars, sessionVars >>

ClientNext ==
  \/ ClS2Call
  \/ ClCrCall

ClientSpec == ClientInit /\ [][ClientNext]_vars

(* ---------------- properties of the source clients -------------------- *)

\* The primary client has run on an answer of the provider.
S2Ran == cl_pc = "done" /\ cl_client = "s2" /\ cl_resp.ok

\* The secondary client has run on an answer of the provider.
CrRan == cl_pc = "done" /\ cl_client = "cr" /\ cl_resp.ok

\* Every item of the answer has a list of authors with names, or none at all.
AuthorsGiven == \A i \in 1..Len(cl_resp.data) : ~IsNone(S2AuthorNames(cl_resp.data[i].authors))

\* The citation count a record is compared by: 0 when the provider gave none.
ComparedCitations(item) ==
  IF item.citationCount[1] = "val" THEN item.citationCount[2] ELSE 0

\* The items whose citation count is at least mc, in the provider's order.
KeptByCitations(items, mc) ==
  SelectSeqOf(items, {it \in {items[i] : i \in 1..Len(items)} : ComparedCitations(it) >= mc})

\* C11: with min_citations given (0 included) and no year bound, the primary
\* client keeps exactly the records whose citation count, taken as 0 when the
\* provider gave none, is at least min_citations, and outputs each with the
\* citation count the provider gave, null when it gave none.
C11_MinCitations ==
  (/\ S2Ran
   /\ ~IsNone(cl_args.min_citations)
   /\ IsNone(cl_args.year_from)
   /\ IsNone(cl_args.year_to)
   /\ AuthorsGiven)
  => LET kept == KeptByCitations(cl_resp.data, cl_args.min_citations[1])
     IN  /\ ~cl_got.raised
         /\ Len(cl_got.out) = Len(kept)
         /\ \A k \in 1..Len(kept) : cl_got.out[k].citations = Get(kept[k].citationCount)

\* A year filter excludes the item as stated: its year is known, and a bound is
\* given that the year is below (year_from) or above (year_to).
ExcludedByYear(item, yf, yt) ==
  /\ item.year[1] = "val"
  /\ \/ ~IsNone(yf) /\ item.year[2] < yf[1]
     \/ ~IsNone(yt) /\ item.year[2] > yt[1]

\* The items no year filter excludes, in the provider's order.
KeptByYear(items, yf, yt) ==
  SelectSeqOf(items, {it \in {items[i] : i \in 1..Len(items)} : ~ExcludedByYear(it, yf, yt)})

\* C12: with no min_citations, the primary client drops exactly the records with
\* a known year below a given year_from or above a given year_to; a record of
\* unknown year, or of a year within the bounds, is kept.
C12_YearFilter ==
  (S2Ran /\ IsNone(cl_args.min_citations) /\ AuthorsGiven)
  => LET kept == KeptByYear(cl_resp.data, cl_args.year_from, cl_args.year_to)
     IN  /\ ~cl_got.raised
         /\ Len(cl_got.out) = Len(kept)
         /\ \A k \in 1..Len(kept) : cl_got.out[k].year = Get(kept[k].year)

\* Whether text s starts with text p.
StartsWith(s, p) == Len(s) >= Len(p) /\ SubSeq(s, 1, Len(p)) = p

\* The identifier of a raw DOI, bare or given as a full URL.
DoiId(d) == IF StartsWith(d, DoiPrefix) THEN SubSeq(d, Len(DoiPrefix) + 1, Len(d)) ELSE d

\* The raw DOI of an item of either provider, <<>> when there is none.
RawDoi(item) ==
  IF cl_client = "s2" THEN StrOrEmpty(GetNested(item.externalIds, "DOI"))
  ELSE StrOrEmpty(Get(item.DOI))

\* C14: every non-null doi of a unified record is https://doi.org/<id>, with the
\* prefix once, whether the raw DOI was bare or a full URL already: the record of
\* every item with a raw DOI carries https://doi.org/ followed by its identifier.
C14_DoiNormalForm ==
  ((S2Ran \/ CrRan) /\ ~cl_got.raised /\ Len(cl_got.out) = Len(cl_resp.data))
  => \A k \in 1..Len(cl_resp.data) :
       Len(RawDoi(cl_resp.data[k])) > 0
         => cl_got.out[k].doi = Py(DoiPrefix \o DoiId(RawDoi(cl_resp.data[k])))

\* C15: the source clients raise on no answer of the provider, whatever fields
\* its items lack, and every record they give has a title, authors and an
\* abstract; the secondary client gives a record for every item.
C15_NormalizationTotal ==
  (S2Ran \/ CrRan)
  => /\ ~cl_got.raised
     /\ \A k \in 1..Len(cl_got.out) :
          /\ Len(cl_got.out[k].title) >= 0
          /\ Len(cl_got.out[k].authors) > 0
          /\ Len(cl_got.out[k].abstract) > 0
     /\ cl_client = "cr" => Len(cl_got.out) = Len(cl_resp.data)

(* ------------------------------ the library --------------------------- *)

\* How many library calls a behaviour makes.
MaxLibOps == 4

\* _ensure_file: the directory is made, and the file written as [] if there is
\* none.
_ensure_file(dir, file) ==
  [dir |-> TRUE, file |-> IF IsNone(file) THEN Py(<<>>) ELSE file]

\* A variant of LibKey that takes the title as it is.
LibKeyUnstripped(e) == << GetDefault(e.title, <<>>)[1], Get(e.year) >>

\* (e.get("title","").strip(), e.get("year"))
LibKey(e) == << Strip(GetDefault(e.title, <<>>)[1]), Get(e.year) >>

\* load_library on the file system (dir, file): the file system it leaves and the
\* list it returns.
load_library(dir, file) ==
  LET fs == _ensure_file(dir, file)
  IN  [dir |-> fs.dir, file |-> fs.file, ret |-> fs.file[1]]

\* A variant of add_to_library that appends without looking for a duplicate.
add_to_library_unchecked(dir, file, entry) ==
  LET fs  == _ensure_file(dir, file)
      lib == load_library(fs.dir, fs.file).ret
  IN  [dir |-> fs.dir, file |-> Py(Append(lib, entry)), accepted |-> TRUE]

\* add_to_library(entry) on the file system (dir, file): the file system it
\* leaves and whether the entry was accepted.
add_to_library(dir, file, entry) ==
  LET fs   == _ensure_file(dir, file)
      lib  == load_library(fs.dir, fs.file).ret
      keys == {LibKey(lib[i]) : i \in 1..Len(lib)}
  IN  IF LibKey(entry) \in keys
      THEN [dir |-> fs.dir, file |-> fs.file, accepted |-> FALSE]
      ELSE [dir |-> fs.dir, file |-> Py(Append(lib, entry)), accepted |-> TRUE]

\* clear_library on the file system (dir, file): open(LIB_PATH, "w") raises
\* FileNotFoundError when the directory is not there, and writes [] otherwise.
clear_library(dir, file) ==
  IF dir THEN [dir |-> dir, file |-> Py(<<>>), raised |-> FALSE]
  ELSE [dir |-> dir, file |-> file, raised |-> TRUE]

\* The entries saved: paper records, of which the title, the year and one more
\* field are kept here.  Two pairs of them differ in the blanks of the title only.
LibEntries ==
  { [title |-> Val(<<"T">>), year |-> Val(2020), doi |-> <<"a">>],
    [title |-> Val(<<" ","T"," ">>), year |-> Val(2020), doi |-> <<"b">>],
    [title |-> Val(<<"T">>), year |-> Null, doi |-> <<"a">>],
    [title |-> Missing, year |-> Val(2020), doi |-> <<"c">>],
    [title |-> Val(<<" ">>), year |-> Val(2020), doi |-> <<"d">>] }

\* An empty library: no directory yet, no file yet, or a file holding [].
LibInit ==
  /\ SearchIdle
  /\ ClientIdle
  /\ CodeIdle
  /\ AliasIdle
  /\ SessionsIdle
  /\ lib_log = <<>>
  /\ \/ lib_dir = FALSE /\ lib_file = PyNone
     \/ lib_dir = TRUE /\ lib_file \in {PyNone, Py(<<>>)}

\* add_to_library(entry), as app.py calls it for a paper of the result list.
LibAdd ==
  /\ Len(lib_log) < MaxLibOps
  /\ \E entry \in LibEntries :
       LET r == add_to_library(lib_dir, lib_file, entry)
       IN  /\ lib_dir' = r.dir
           /\ lib_file' = r.file
           /\ lib_log' = Append(lib_log, [op |-> "add", entry |-> entry, before |-> lib_file,
                                          after |-> r.file, ret |-> <<r.accepted>>,
                                          raised |-> FALSE])
  /\ UNCHANGED << searchVars, log_transport, clientVars, codeVars, aliasVars, sessionVars >>

\* load_library().
LibLoad ==
  /\ Len(lib_log) < MaxLibOps
  /\ LET r == load_library(lib_dir, lib_file)
     IN  /\ lib_dir' = r.dir
         /\ lib_file' = r.file
         /\ lib_log' = Append(lib_log, [op |-> "load", entry |-> <<>>, before |-> lib_file,
                                        after |-> r.file, ret |-> r.ret, raised |-> FALSE])
  /\ UNCHANGED << searchVars, log_transport, clientVars, codeVars, aliasVars, sessionVars >>

\* clear_library().
LibClear ==
  /\ Len(lib_log) < MaxLibOps
  /\ LET r == clear_library(lib_dir, lib_file)
     IN  /\ lib_dir' = r.dir
         /\ lib_file' = r.file
         /\ lib_log' = Append(lib_log, [op |-> "clear", entry |-> <<>>, before |-> lib_file,
                                        after |-> r.file, ret |-> <<>>, raised |-> r.raised])
  /\ UNCHANGED << searchVars, log_transport, clientVars, codeVars, aliasVars, sessionVars >>

LibNext ==
  \/ LibAdd
  \/ LibLoad
  \/ LibClear

LibSpec == LibInit /\ [][LibNext]_vars

(* ----------------------- properties of the library -------------------- *)

\* The stored library: the entries of the file, none when there is no file yet.
Stored(file) == IF IsNone(file) THEN <<>> ELSE file[1]

\* The title of an entry, "" when it has none.
TitleOf(e) == IF e.title[1] = "val" THEN e.title[2] ELSE <<>>

\* The year of an entry, <<>> when it has none.
YearOf(e) == IF e.year[1] = "val" THEN <<e.year[2]>> ELSE <<>>

\* Two entries have the same (title.strip(), year).
SameLibKey(a, b) == Strip(TitleOf(a)) = Strip(TitleOf(b)) /\ YearOf(a) = YearOf(b)

\* C17: add_to_library(entry) returns accepted = false exactly when the stored
\* library holds a record with the same (title.strip(), year), and then leaves
\* the stored library as it was; otherwise it returns accepted = true and the
\* stored library is the previous one with the entry appended.
C17_AddContract ==
  \A i \in 1..Len(lib_log) :
    lib_log[i].op = "add"
      => LET prev == Stored(lib_log[i].before)
             now  == Stored(lib_log[i].after)
             dup  == \E j \in 1..Len(prev) : SameLibKey(prev[j], lib_log[i].entry)
         IN  /\ ~lib_log[i].raised
             /\ lib_log[i].ret = <<~dup>>
             /\ dup => now = prev
             /\ ~dup => now = Append(prev, lib_log[i].entry)

\* An entry whose title differs from a stored one in its blanks only has been
\* rejected, and another entry accepted after it.
C17_Witness ==
  \E i, k \in 1..Len(lib_log) :
    /\ lib_log[i].op = "add" /\ lib_log[i].ret = <<FALSE>>
    /\ \E j \in 1..Len(Stored(lib_log[i].before)) :
         Stored(lib_log[i].before)[j] # lib_log[i].entry
    /\ k > i /\ lib_log[k].op = "add" /\ lib_log[k].ret = <<TRUE>>
    /\ Len(Stored(lib_log[k].after)) = 2

\* C20: from an empty library, after any sequence of add_to_library,
\* load_library and clear_library calls the stored library holds no two entries
\* with the same (title.strip(), year); load_library never changes the stored
\* entries and returns them; after clear_library the library is empty; and an
\* entry rejected before is accepted when added right after clear_library.
C20_LibraryInvariant ==
  /\ \A i, j \in 1..Len(Stored(lib_file)) :
       i # j => ~SameLibKey(Stored(lib_file)[i], Stored(lib_file)[j])
  /\ \A i \in 1..Len(lib_log) :
       /\ lib_log[i].op = "load"
            => /\ Stored(lib_log[i].after) = Stored(lib_log[i].before)
               /\ lib_log[i].ret = Stored(lib_log[i].before)
               /\ ~lib_log[i].raised
       /\ lib_log[i].op = "clear" => Stored(lib_log[i].after) = <<>>
  /\ \A i, k \in 1..Len(lib_log) :
       (/\ i < k - 1
        /\ lib_log[i].op = "add" /\ lib_log[i].ret = <<FALSE>>
        /\ lib_log[k - 1].op = "clear"
        /\ lib_log[k].op = "add" /\ lib_log[k].entry = lib_log[i].entry)
       => lib_log[k].ret = <<TRUE>>

\* An entry was rejected, the library cleared, and the entry accepted again.
C20_Witness ==
  /\ Len(lib_log) = 4
  /\ lib_log[2].op = "add" /\ lib_log[2].ret = <<FALSE>>
  /\ lib_log[3].op = "clear" /\ ~lib_log[3].raised
  /\ lib_log[4].op = "add" /\ lib_log[4].entry = lib_log[2].entry
  /\ lib_log[4].ret = <<TRUE>>
  /\ Stored(lib_file) = <<lib_log[2].entry>>

(* ----------------------------- code search ---------------------------- *)

\* How many URLs the PDF step may meet in one PDF.
MaxFinds == 2

GitHubHost == <<"g","i","t","h","u","b",".","c","o","m">>

\* url.rstrip(".,);] ")
RECURSIVE _clean_url(_)
_clean_url(url) ==
  IF Len(url) > 0 /\ url[Len(url)] \in {".", ",", ")", ";", "]", " "}
  THEN _clean_url(SubSeq(url, 1, Len(url) - 1))
  ELSE url

\* The set urls of _extract_github_links_from_pdf (lines 76-88): every match of
\* the pattern in the text, and every link object whose uri holds "github.com",
\* each cleaned.
PdfUrls(found) ==
  { _clean_url(found[i].url[1]) :
      i \in { j \in 1..Len(found) :
                \/ found[j].where = "text"
                \/ TruthyStr(found[j].url) /\ Contains(found[j].url[1], GitHubHost) } }

\* The record _extract_github_links_from_pdf makes of a URL (lines 93-100).
PdfLink(u) ==
  [html_url |-> Py(u), full_name |-> PyNone, description |-> PyNone, language |-> PyNone,
   stars |-> PyNone, source |-> "pdf"]

\* All orders in which the elements of the set S may be listed.
ListsOf(S) ==
  { l \in [1..Cardinality(S) -> S] : \A i, j \in 1..Cardinality(S) : i # j => l[i] # l[j] }

\* authors.split(",")[0]
RECURSIVE BeforeComma(_)
BeforeComma(t) ==
  IF t = <<>> \/ Head(t) = "," THEN <<>> ELSE <<Head(t)>> \o BeforeComma(Tail(t))

\* t.split()[-1] for a text t with no blank at either end.
RECURSIVE LastWord(_)
LastWord(t) ==
  IF t = <<>> \/ IsSpace(t[Len(t)]) THEN <<>>
  ELSE LastWord(SubSeq(t, 1, Len(t) - 1)) \o <<t[Len(t)]>>

\* first_author_last of _search_github_repos (lines 126-131).
FirstAuthorLast(authors) ==
  IF Len(authors) = 0 THEN <<>>
  ELSE LET first == Strip(BeforeComma(authors))
       IN  IF Len(first) = 0 THEN <<>> ELSE LastWord(first)

\* The request parameters of _search_github_repos (lines 134-144).
GitHubParams(title, authors, wanted) ==
  LET hint == FirstAuthorLast(authors)
      named == <<"\"">> \o title \o <<"\"">>
               \o <<" ","i","n",":","n","a","m","e",",","d","e","s","c","r","i","p","t","i","o","n",
                    ",","r","e","a","d","m","e">>
  IN  [q        |-> IF Len(hint) > 0 THEN named \o <<" ">> \o hint ELSE named,
       per_page |-> IF wanted > 1 THEN wanted ELSE 1]

\* The record _search_github_repos makes of an item (lines 158-165).
RepoRecord(item) ==
  [full_name |-> Get(item.full_name), html_url |-> Get(item.html_url),
   description |-> Get(item.description), language |-> Get(item.language),
   stars |-> GetDefault(item.stargazers_count, 0), source |-> "github_search"]

\* _search_github_repos, given the answer resp of the API: [ok |-> FALSE] when
\* the request raised, [ok |-> TRUE, items |-> f] otherwise; a null "items"
\* raises in the loop.
_search_github_repos(title, authors, wanted, resp) ==
  IF ~resp.ok \/ resp.items = Null
  THEN [raised |-> TRUE, out |-> <<>>]
  ELSE [raised |-> FALSE,
        out |-> IF resp.items = Missing THEN <<>>
                ELSE [i \in 1..Len(resp.items[2]) |-> RepoRecord(resp.items[2][i])]]

\* A variant of PdfSettles that never lets the PDF step return.
PdfSettlesNever(links) == FALSE

\* `if pdf_links:` (line 34): the links of the PDF are returned as they are.
PdfSettles(links) == Len(links) > 0

\* The URLs a PDF may hold: a match in the text with a dot after it, link
\* objects to the same repository and to another site, and one without a uri.
PdfFinds ==
  { [where |-> "text", url |-> Py(GitHubHost \o <<"/","a",".">>)],
    [where |-> "link", url |-> Py(GitHubHost \o <<"/","a">>)],
    [where |-> "link", url |-> Py(GitHubHost \o <<"/","b">>)],
    [where |-> "link", url |-> Py(<<"x",".","o","r","g">>)],
    [where |-> "link", url |-> PyNone] }

\* What fetching and reading the PDF may give: an exception, or the URLs met.
PdfAnswers ==
  {[ok |-> FALSE, found |-> <<>>]}
  \cup {[ok |-> TRUE, found |-> f] : f \in SeqsUpTo(PdfFinds, MaxFinds)}

RepoItem ==
  [full_name |-> Val(<<"o","/","r">>), html_url |-> Val(GitHubHost \o <<"/","o","/","r">>),
   description |-> Null, language |-> Missing, stargazers_count |-> Val(7)]

\* What the repository search API may answer.
GitHubAnswers ==
  { [ok |-> FALSE, items |-> Missing], [ok |-> TRUE, items |-> Missing],
    [ok |-> TRUE, items |-> Null], [ok |-> TRUE, items |-> Val(<<>>)],
    [ok |-> TRUE, items |-> Val(<<RepoItem>>)],
    [ok |-> TRUE, items |-> Val(<<RepoItem, [RepoItem EXCEPT !.stargazers_count = Missing]>>)] }

\* The arguments app.py passes for a paper of the result list.
CodeArgs ==
  [ title : {PyNone, Py(<<>>), Py(<<"T">>)},
    authors : {<<>>, <<"A"," ","B",","," ","C">>, <<" ",",","C">>},
    pdf_url : {PyNone, Py(<<>>), Py(<<"p">>)},
    max_results : {0, 3} ]

CodeInit ==
  /\ SearchIdle
  /\ ClientIdle
  /\ LibraryIdle
  /\ AliasIdle
  /\ SessionsIdle
  /\ cs_pc = "start"
  /\ cs_args \in CodeArgs
  /\ cs_pdf = [kind |-> "none"]
  /\ cs_search = [kind |-> "none"]
  /\ cs_calls = <<>>
  /\ cs_ret = <<>>

codeRest == << searchVars, log_transport, clientVars, libVars, aliasVars, sessionVars >>

\* Lines 31-38: with a pdf_url, the links of the PDF are looked for and returned
\* when there are any; an exception is caught and printed.
CodeTryPdf ==
  /\ cs_pc = "start"
  /\ TruthyStr(cs_args.pdf_url)
  /\ cs_calls' = Append(cs_calls, "pdf")
  /\ \E ans \in PdfAnswers :
       IF ~ans.ok
       THEN /\ cs_pdf' = [kind |-> "raised"]
            /\ cs_pc' = "fallback"
            /\ cs_ret' = cs_ret
       ELSE \E order \in ListsOf(PdfUrls(ans.found)) :
              LET pdf_links == [i \in 1..Len(order) |-> PdfLink(order[i])]
              IN  /\ cs_pdf' = [kind |-> "links", links |-> pdf_links]
                  /\ IF PdfSettles(pdf_links)
                     THEN cs_ret' = <<pdf_links>> /\ cs_pc' = "done"
                     ELSE cs_ret' = cs_ret /\ cs_pc' = "fallback"
  /\ UNCHANGED << cs_args, cs_search, codeRest >>

\* Line 31: without a pdf_url the PDF step is skipped.
CodeSkipPdf ==
  /\ cs_pc = "start"
  /\ ~TruthyStr(cs_args.pdf_url)
  /\ cs_pc' = "fallback"
  /\ UNCHANGED << cs_args, cs_pdf, cs_search, cs_calls, cs_ret, codeRest >>

\* Lines 41-42: without a title there is nothing to search for.
CodeNoTitle ==
  /\ cs_pc = "fallback"
  /\ ~TruthyStr(cs_args.title)
  /\ cs_ret' = << <<>> >>
  /\ cs_pc' = "done"
  /\ UNCHANGED << cs_args, cs_pdf, cs_search, cs_calls, codeRest >>

\* Lines 44-53: the repository search; an exception is caught and [] returned.
CodeSearch ==
  /\ cs_pc = "fallback"
  /\ TruthyStr(cs_args.title)
  /\ cs_calls' = Append(cs_calls, "search")
  /\ \E ans \in GitHubAnswers :
       LET got == _search_github_repos(cs_args.title[1], cs_args.authors,
                                       cs_args.max_results, ans)
       IN  /\ cs_search' = [kind |-> IF got.raised THEN "raised" ELSE "repos",
                            params |-> GitHubParams(cs_args.title[1], cs_args.authors,
                                                    cs_args.max_results)]
           /\ cs_ret' = << IF got.raised THEN <<>> ELSE got.out >>
  /\ cs_pc' = "done"
  /\ UNCHANGED << cs_args, cs_pdf, codeRest >>

CodeNext ==
  \/ CodeTryPdf
  \/ CodeSkipPdf
  \/ CodeNoTitle
  \/ CodeSearch

CodeSpec == CodeInit /\ [][CodeNext]_vars

\* C18: CodeSearchTool.invoke tries the PDF first and the repository search
\* after it: the search runs only with a non-empty title and only if no pdf_url
\* was given, the PDF step raised, or it found no link; with a link found in the
\* PDF the search never runs and the links are what is returned; an exception of
\* either step never leaves invoke, and one of the search gives [].
C18_PdfFirst ==
  /\ cs_calls \in {<<>>, <<"pdf">>, <<"search">>, <<"pdf", "search">>}
  /\ cs_pc \in {"start", "fallback", "done"}
  /\ (cs_search.kind = "none") = (\A i \in 1..Len(cs_calls) : cs_calls[i] # "search")
  /\ (cs_pdf.kind = "none") = (\A i \in 1..Len(cs_calls) : cs_calls[i] # "pdf")
  /\ cs_search.kind # "none"
       => /\ TruthyStr(cs_args.title)
          /\ \/ ~TruthyStr(cs_args.pdf_url)
             \/ cs_pdf.kind = "raised"
             \/ cs_pdf.kind = "links" /\ cs_pdf.links = <<>>
  /\ (cs_pdf.kind = "links" /\ cs_pdf.links # <<>>)
       => /\ cs_search.kind = "none"
          /\ cs_pc = "done"
          /\ cs_ret = <<cs_pdf.links>>
  /\ cs_pc = "done" => Len(cs_ret) = 1
  /\ cs_search.kind = "raised" => cs_ret = << <<>> >>

\* The PDF step raised, and the repository search ran after it and raised too.
C18_Witness ==
  /\ cs_pc = "done"
  /\ cs_calls = <<"pdf", "search">>
  /\ cs_pdf.kind = "raised"
  /\ cs_search.kind = "raised"
  /\ cs_ret = << <<>> >>

(* ------------------------- the two alias paths ------------------------ *)

\* The keys of an alias table.
KeysOfTable(table) == {table[i][1] : i \in 1..Len(table)}

\* The text with its first letter in upper case.
Capitalized(t) ==
  IF Len(t) > 0 /\ \E i \in 1..Len(LowerChars) : LowerChars[i] = t[1]
  THEN <<UpperChars[CHOOSE i \in 1..Len(LowerChars) : LowerChars[i] = t[1]]>> \o Tail(t)
  ELSE t

\* The venue texts both functions are given: every key of either table, as it
\* is, capitalized and with blanks around it; no venue, an empty and a blank one;
\* and unknown texts.
AliasInputs ==
  LET keys == KeysOfTable(VenueAliasTable) \cup KeysOfTable(AliasCandidateTable)
  IN  {Py(k) : k \in keys}
      \cup {Py(Capitalized(k)) : k \in keys}
      \cup {Py(<<" ">> \o k \o <<" ">>) : k \in keys}
      \cup {PyNone, Py(<<>>), Py(<<" ", " ">>), Py(<<"I","c","m">>), Py(<<" ","I","c","m">>)}

AliasInit ==
  /\ SearchIdle
  /\ ClientIdle
  /\ LibraryIdle
  /\ CodeIdle
  /\ SessionsIdle
  /\ al_pc = "call"
  /\ al_venue \in AliasInputs
  /\ al_query_form = <<>>
  /\ al_matching = <<>>

\* Both functions run on the same venue text.
AliasResolve ==
  /\ al_pc = "call"
  /\ al_query_form' = _venue_aliases(al_venue)
  /\ al_matching' = _alias_candidates(al_venue)
  /\ al_pc' = "done"
  /\ UNCHANGED << al_venue, searchVars, log_transport, clientVars, libVars, codeVars, sessionVars >>

AliasNext == AliasResolve

AliasSpec == AliasInit /\ [][AliasNext]_vars

\* C19: for every venue input the matching list of _alias_candidates is the
\* case-folded query-form list of _venue_aliases, alias by alias in the same
\* order, and the input is a key of one table exactly when it is a key of the
\* other.
C19_SameDictionary ==
  al_pc = "done"
  => /\ al_matching = [i \in 1..Len(al_query_form) |-> Lower(al_query_form[i])]
     /\ (_normalize_venue(al_venue) \in KeysOfTable(VenueAliasTable))
          = (_normalize_venue(al_venue) \in KeysOfTable(AliasCandidateTable))

(* -------------------- two sessions saving at once --------------------- *)

\* The two UI sessions, each running the script in a thread of its own.
Sessions == {1, 2}

\* The number of decimal digits of n.
RECURSIVE DecLen(_)
DecLen(n) == IF n < 10 THEN 1 ELSE 1 + DecLen(n \div 10)

\* The length of the text json.dump(..., indent=2) writes for one entry: four
\* blanks, the quoted key, ": " and the value for each field it has, ",\n"
\* between the fields, within "  {\n" and "\n  }".
EntryJsonLen(e) ==
  LET title   == IF e.title = Missing THEN 0
                 ELSE 4 + 7 + 2 + (IF e.title = Null THEN 4 ELSE Len(e.title[2]) + 2)
      year    == IF e.year = Missing THEN 0
                 ELSE 4 + 6 + 2 + (IF e.year = Null THEN 4 ELSE DecLen(e.year[2]))
      doi     == 4 + 5 + 2 + Len(e.doi) + 2
      nfields == (IF e.title = Missing THEN 0 ELSE 1) + (IF e.year = Missing THEN 0 ELSE 1) + 1
  IN  4 + title + year + doi + 2 * (nfields - 1) + 4

\* The length of the text json.dump(lib, f, indent=2) writes: "[]" for no entry,
\* the entries with ",\n" between them within "[\n" and "\n]" otherwise.
RECURSIVE JsonLen(_)
JsonLen(lib) ==
  IF Len(lib) = 0 THEN 2
  ELSE IF Len(lib) = 1 THEN 2 + EntryJsonLen(lib[1]) + 2
  ELSE EntryJsonLen(lib[1]) + 2 + JsonLen(Tail(lib))

\* open(LIB_PATH, "w"): the file is made if there is none and cut to no text,
\* which json.load does not take.
Truncated == [there |-> TRUE, valid |-> FALSE, lib |-> <<>>, size |-> 0]

\* The with block of a file opened "w" ends: the text of lib goes to the start
\* of the file as it is by then.  A longer text another handle has written since
\* keeps its end after it, and json.load does not take the two together.
Written(disk, lib) ==
  IF disk.size <= JsonLen(lib)
  THEN [there |-> TRUE, valid |-> TRUE, lib |-> lib, size |-> JsonLen(lib)]
  ELSE [there |-> TRUE, valid |-> FALSE, lib |-> <<>>, size |-> disk.size]

\* Both sessions save an entry at once, into a library that is not there yet, is
\* empty or holds one entry.
SessionInit ==
  /\ SearchIdle
  /\ ClientIdle
  /\ LibraryIdle
  /\ CodeIdle
  /\ AliasIdle
  /\ log_transport = FALSE
  /\ \/ ses_dir = FALSE /\ ses_disk = [there |-> FALSE, valid |-> FALSE, lib |-> <<>>, size |-> 0]
     \/ ses_dir = TRUE /\ ses_disk = [there |-> FALSE, valid |-> FALSE, lib |-> <<>>, size |-> 0]
     \/ ses_dir = TRUE /\ ses_disk = Written(Truncated, <<>>)
     \/ ses_dir = TRUE
        /\ ses_disk = Written(Truncated, << [title |-> Val(<<"T">>), year |-> Val(2020), doi |-> <<"a">>] >>)
  /\ ses_pc = <<"ensure1", "ensure1">>
  /\ \E a, b \in LibEntries : ses_entry = << Py(a), Py(b) >>
  /\ ses_lib = << <<>>, <<>> >>
  /\ ses_ret = <<"none", "none">>

sessionRest == << searchVars, log_transport, clientVars, libVars, codeVars, aliasVars >>

\* _ensure_file up to its test: the directory is made, and the file is looked
\* for; add_to_library runs it, and load_library runs it again.
SesEnsure(p) ==
  /\ ses_pc[p] \in {"ensure1", "ensure2"}
  /\ ses_dir' = TRUE
  /\ ses_pc' = [ses_pc EXCEPT ![p] =
                  IF ses_disk.there
                  THEN (IF ses_pc[p] = "ensure1" THEN "ensure2" ELSE "read")
                  ELSE (IF ses_pc[p] = "ensure1" THEN "open1" ELSE "open2")]
  /\ UNCHANGED << ses_disk, ses_entry, ses_lib, ses_ret, sessionRest >>

\* open(LIB_PATH, "w"), in _ensure_file and in add_to_library.
SesOpen(p) ==
  /\ ses_pc[p] \in {"open1", "open2", "open3"}
  /\ ses_disk' = Truncated
  /\ ses_pc' = [ses_pc EXCEPT ![p] =
                  IF ses_pc[p] = "open1" THEN "dump1"
                  ELSE IF ses_pc[p] = "open2" THEN "dump2" ELSE "dump3"]
  /\ UNCHANGED << ses_dir, ses_entry, ses_lib, ses_ret, sessionRest >>

\* json.dump and the end of the with block: [] in _ensure_file, the list with
\* the entry in add_to_library, which then returns True.
SesDump(p) ==
  /\ ses_pc[p] \in {"dump1", "dump2", "dump3"}
  /\ ses_disk' = Written(ses_disk, IF ses_pc[p] = "dump3" THEN ses_lib[p] ELSE <<>>)
  /\ ses_pc' = [ses_pc EXCEPT ![p] =
                  IF ses_pc[p] = "dump1" THEN "ensure2"
                  ELSE IF ses_pc[p] = "dump2" THEN "read" ELSE "done"]
  /\ ses_ret' = [ses_ret EXCEPT ![p] = IF ses_pc[p] = "dump3" THEN "accepted" ELSE @]
  /\ UNCHANGED << ses_dir, ses_entry, ses_lib, sessionRest >>

\* json.load of the file in load_library, which raises on a text that is not
\* JSON, and the test for a duplicate and the append on the list it gave.
SesRead(p) ==
  /\ ses_pc[p] = "read"
  /\ LET lib  == ses_disk.lib
         keys == {LibKey(lib[i]) : i \in 1..Len(lib)}
     IN  IF ~ses_disk.valid
         THEN /\ ses_ret' = [ses_ret EXCEPT ![p] = "raised"]
              /\ ses_pc' = [ses_pc EXCEPT ![p] = "done"]
              /\ UNCHANGED ses_lib
         ELSE IF LibKey(ses_entry[p][1]) \in keys
         THEN /\ ses_ret' = [ses_ret EXCEPT ![p] = "rejected"]
              /\ ses_pc' = [ses_pc EXCEPT ![p] = "done"]
              /\ UNCHANGED ses_lib
         ELSE /\ ses_lib' = [ses_lib EXCEPT ![p] = Append(lib, ses_entry[p][1])]
              /\ ses_pc' = [ses_pc EXCEPT ![p] = "open3"]
              /\ UNCHANGED ses_ret
  /\ UNCHANGED << ses_dir, ses_disk, ses_entry, sessionRest >>

SessionNext ==
  \E p \in Sessions :
    \/ SesEnsure(p)
    \/ SesOpen(p)
    \/ SesDump(p)
    \/ SesRead(p)

SessionSpec == SessionInit /\ [][SessionNext]_vars

\* C21: under any interleaving of two add_to_library calls, once both have
\* returned every entry whose call returned accepted = true is in the stored
\* library, and the stored library holds no two entries with the same
\* (title.strip(), year).
C21_ConcurrentAdds ==
  (\A p \in Sessions : ses_pc[p] = "done")
  => /\ \A p \in Sessions :
          ses_ret[p] = "accepted"
            => /\ ses_disk.valid
               /\ \E i \in 1..Len(ses_disk.lib) : ses_disk.lib[i] = ses_entry[p][1]
     /\ ses_disk.valid
          => \A i, j \in 1..Len(ses_disk.lib) :
               i # j => ~SameLibKey(ses_disk.lib[i], ses_disk.lib[j])

====
